---- MODULE Spec2Model ----
(***************************************************************************)
(* Style extraction pipeline of the shadcn fork: the StyleFileBuilder      *)
(* (functions, groups, parameters, manipulations), processSource /         *)
(* saveResults, removeUnusedImports and the extractStyles coordinator.     *)
(*                                                                         *)
(* The repository holds two drafts of the extraction module.  Where they   *)
(* differ the draft is part of the state:                                  *)
(*   DraftGroups  src/packages/shadcn/src/commands/extractStylesProcess.ts *)
(*                (one StyleFunction per Root, one group per element)      *)
(*   DraftUnique  src/unnamed/part_004                                     *)
(*                (one force-created StyleFunction per element)            *)
(***************************************************************************)
EXTENDS Integers, Sequences, FiniteSets, TLC

VARIABLES
    draft,              \* which draft of the extraction module runs
    source,             \* the component's source tree as read by the analysis (the input)
    functions,          \* styleBuilder.style.functions
    variables,          \* styleBuilder.style.variables (the hoisted declarations)
    styleImports,       \* styleBuilder.style.imports
    componentImports,   \* styleBuilder.component.imports
    manipulations,      \* styleBuilder.manipulations, each with the number of times it ran
    lastCall,           \* the last builder call: its arguments, the list before it, its result
    pc,                 \* position of the extraction job in processSource / saveResults
    cursor,             \* number of markup elements the forEach loop has finished
    passQueue,          \* runManipulations: the actions of the pass still to call
    tree,               \* the component's source tree as mutated so far
    generated,          \* what createStyleObject and addImportsToSourceFile wrote to styleSource
    writes,             \* the two save() calls of saveResults
    task                \* the promise saveResults returned (result.task)

builderVars == <<functions, variables, styleImports, componentImports, manipulations>>
jobVars == <<pc, cursor, passQueue, tree, generated, writes, task>>
vars == <<draft, source, functions, variables, styleImports, componentImports,
          manipulations, lastCall, pc, cursor, passQueue, tree, generated, writes, task>>

DraftGroups == "extractStylesProcess.ts"
DraftUnique == "part_004"
Drafts == {DraftGroups, DraftUnique}

(***************************************************************************)
(* Bounds.                                                                 *)
(***************************************************************************)
MaxFunctions == 3       \* getFunction calls in SpecFunctions
MaxGroups == 4          \* createGroup calls in SpecGroups
MaxIdents == 3          \* identifiers in the attributes of the element of SpecAnalyze
MaxElems == 2           \* markup elements of the component of Spec
MaxDecls == 2           \* import declarations of the file of SpecPrune
MaxUses == 1            \* references to one import binding, per file, in SpecPrune
MaxComponents == 3      \* components the coordinator of SpecCoord processes
MaxWorkers == 3         \* workers started by processSourceThread in SpecWorker

FunctionNames == {"A", "A2", "A3", "B"}
RootIds == {1, 2}
GroupLabels == {"", "2", "div"}

(***************************************************************************)
(* Array helpers.                                                          *)
(***************************************************************************)
Range(s) == {s[i] : i \in 1..Len(s)}

NamesOf(s) == {s[i].name : i \in 1..Len(s)}

\* Array.prototype.find((x) => x.name === name): index of the first match, 0 if none
FindByName(s, name) ==
    IF name \in NamesOf(s)
    THEN CHOOSE i \in 1..Len(s) : s[i].name = name /\ \A j \in 1..(i - 1) : s[j].name # name
    ELSE 0

SeqsUpTo(S, n) == UNION {[1..k -> S] : k \in 0..n}

(***************************************************************************)
(* Program constants.                                                      *)
(***************************************************************************)
styleAttributes == <<"className", "style", "classNames">>

BeforeStyleGeneration == "BeforeStyleGeneration"
AfterStyleGeneration == "AfterStyleGeneration"

Undefined == "<undefined>"

(***************************************************************************)
(* style.getFunction(name, rootFunction, forceCreate = false).             *)
(***************************************************************************)
\* a variant that tries the suffix 2 only, whatever is already in the list
forcedNameOnce(fs, originalName, name, i) ==
    IF name \in NamesOf(fs) THEN originalName \o ToString(i) ELSE name

\* the while loop: `name`, then originalName2, originalName3, ... until unused
RECURSIVE forcedName(_, _, _, _)
forcedName(fs, originalName, name, i) ==
    IF name \in NamesOf(fs)
    THEN forcedName(fs, originalName, originalName \o ToString(i), i + 1)
    ELSE name

\* groups is the DraftGroups builder's list; properties the DraftUnique builder's record
newFunction(name, rootFunction) ==
    [name |-> name, rootFunction |-> rootFunction, parameters |-> <<>>, groups |-> <<>>,
     properties |-> <<>>]

\* result: the function list after the call and the index of the returned builder
getFunction(fs, name, rootFunction, forceCreate) ==
    LET n == IF forceCreate THEN forcedName(fs, name, name, 2) ELSE name
    IN  IF n \in NamesOf(fs)
        THEN [functions |-> fs, index |-> FindByName(fs, n)]
        ELSE [functions |-> Append(fs, newFunction(n, rootFunction)), index |-> Len(fs) + 1]

(***************************************************************************)
(* StyleFunctionBuilder.getGroup(name) and createGroup(jsxElement); the    *)
(* element enters as its getGroupName() text.                              *)
(***************************************************************************)
\* a variant that appends the suffix 2 without looking at the result
groupNameOnce(groups, originalName, name, i) ==
    IF name \in NamesOf(groups) THEN originalName \o ToString(i) ELSE name

RECURSIVE groupName(_, _, _, _)
groupName(groups, originalName, name, i) ==
    IF name \in NamesOf(groups)
    THEN groupName(groups, originalName, originalName \o ToString(i), i + 1)
    ELSE name

getGroup(groups, name) ==
    IF name \in NamesOf(groups)
    THEN [groups |-> groups, index |-> FindByName(groups, name)]
    ELSE [groups |-> Append(groups, [name |-> name, properties |-> <<>>]),
          index |-> Len(groups) + 1]

createGroup(groups, originalName) ==
    getGroup(groups, groupName(groups, originalName, originalName, 2))

(***************************************************************************)
(* The symbols an attribute's identifiers resolve to: the kind of the      *)
(* declaration getSymbol().getDeclarations() yields for each name used in  *)
(* the modelled component.                                                 *)
(*   size      destructured prop of the Root            (BindingElement)   *)
(*   open      const declared inside the Root           (VariableDeclaration, local) *)
(*   variants  module-scope const variants = cva(base)  (VariableDeclaration)        *)
(*   base      module-scope const base = "..."          (VariableDeclaration)        *)
(*   cn        import { cn } from "@/lib/utils"         (ImportSpecifier)  *)
(*   cva       import { cva } from "class-variance-authority"              *)
(***************************************************************************)
SymbolKind(text) ==
    CASE text = "size" -> "BindingElement"
      [] text = "open" -> "LocalVariable"
      [] text = "variants" -> "ModuleVariable"
      [] text = "base" -> "ModuleVariable"
      [] text = "cn" -> "ImportSpecifier"
      [] text = "cva" -> "ImportSpecifier"
      [] OTHER -> "None"

ImportModule(text) == IF text = "cva" THEN "class-variance-authority" ELSE "@/lib/utils"

\* identifiers of the initializer of a module-scope variable when it is a call
InitializerCallIdents(text) == IF text = "variants" THEN <<"cva", "base">> ELSE <<>>

\* rhs.getChildAtIndex(0).getText() === "cva"
IsCva(text) == text = "variants"

\* keys of the object literal passed where the cva variable is called
CvaArgNames(text) == IF text = "variants" THEN {"size"} ELSE {}

SymbolType(text) == [text |-> "string", isOptional |-> FALSE]

\* An identifier occurrence inside an attribute value: `text` alone (an
\* argument of a call) or, with access, the head of `text.member`.
Occurrences ==
    {[text |-> "size", access |-> FALSE], [text |-> "size", access |-> TRUE],
     [text |-> "open", access |-> FALSE], [text |-> "variants", access |-> FALSE],
     [text |-> "cn", access |-> FALSE]}

Member == "x"

NoAttribute == [present |-> FALSE, init |-> FALSE, idents |-> <<>>]

Attribute(init, idents) == [present |-> TRUE, init |-> init, idents |-> idents]

TextsOf(idents) == {idents[i].text : i \in 1..Len(idents)}

(***************************************************************************)
(* The analyzers.  b is the StyleFileBuilder; fi the index of the          *)
(* StyleFunction of the element; e, a the element and attribute analysed.  *)
(***************************************************************************)
Builder ==
    [functions |-> functions, variables |-> variables, styleImports |-> styleImports,
     componentImports |-> componentImports, manipulations |-> manipulations]

\* a queued Manipulation: its pass, what its closure does (kind) and to which node
\* (element e, attribute a, or the statement or expression `target`); runs counts
\* the times the closure was called
Manipulation(pass, kind, e, a, target) ==
    [pass |-> pass, kind |-> kind, elem |-> e, attr |-> a, target |-> target, runs |-> 0]

Parameter(sourceName, destinationName, type) ==
    [sourceName |-> sourceName, destinationName |-> destinationName, type |-> type]

\* functionBuilder.parameters.push(parameter)
pushParameter(parameters, parameter) == Append(parameters, parameter)

\* StyleFunctionBuilder.addParameter(parameter)
addParameter(parameters, parameter) ==
    IF \A i \in 1..Len(parameters) : parameters[i].sourceName # parameter.sourceName
    THEN Append(parameters, parameter)
    ELSE parameters

\* addImports(node, context)
addImports(b, text) ==
    IF SymbolKind(text) = "ImportSpecifier"
    THEN [b EXCEPT !.styleImports = Append(@, [name |-> text, from |-> ImportModule(text)])]
    ELSE b

analyzeImports(b, occ) == addImports(b, occ.text)

analyzePropertiesGroups(b, fi, e, a, occ) ==
    IF SymbolKind(occ.text) = "BindingElement"
    THEN IF occ.access
         THEN [b EXCEPT
                 !.functions[fi].parameters =
                     pushParameter(@, Parameter(occ.text \o "." \o Member, Member,
                                                SymbolType(occ.text))),
                 !.manipulations =
                     Append(@, Manipulation(BeforeStyleGeneration, "replaceWithText", e, a,
                                            occ.text \o "." \o Member))]
         ELSE [b EXCEPT
                 !.functions[fi].parameters =
                     pushParameter(@, Parameter(occ.text, Undefined, SymbolType(occ.text)))]
    ELSE b

analyzePropertiesUnique(b, fi, occ) ==
    IF occ.access \/ SymbolKind(occ.text) = "BindingElement"
    THEN [b EXCEPT
            !.functions[fi].parameters =
                addParameter(@, Parameter(occ.text, Undefined, SymbolType(occ.text)))]
    ELSE b

analyzeProperties(d, b, fi, e, a, occ) ==
    IF d = DraftGroups
    THEN analyzePropertiesGroups(b, fi, e, a, occ)
    ELSE analyzePropertiesUnique(b, fi, occ)

\* the identifiers of the style attributes of the elements from e2 on that are
\* nested in attribute a of element e
RECURSIVE nestedIdentifiers(_, _, _, _)
nestedIdentifiers(src, e, a, e2) ==
    IF e2 > Len(src.elems) THEN <<>>
    ELSE (IF src.elems[e2].inside = <<e, a>>
          THEN src.elems[e2].attrs["className"].idents \o src.elems[e2].attrs["style"].idents
                   \o src.elems[e2].attrs["classNames"].idents
          ELSE <<>>) \o nestedIdentifiers(src, e, a, e2 + 1)

\* attribute.getDescendantsOfKind(SyntaxKind.Identifier)
childIdentifiers(src, e, a) ==
    src.elems[e].attrs[a].idents \o nestedIdentifiers(src, e, a, 1)

\* a variant that looks at the code outside the attributes only
shouldExportOtherCode(src, text, e, a) == text \in src.otherRefs

\* some reference to the identifier has neither the declaring statement nor
\* this attribute among its ancestors
shouldExport(src, text, e, a) ==
    \/ text \in src.otherRefs
    \/ \E e2 \in 1..Len(src.elems), k \in 1..Len(styleAttributes) :
          /\ <<e2, styleAttributes[k]>> # <<e, a>>
          /\ src.elems[e2].inside # <<e, a>>
          /\ text \in TextsOf(src.elems[e2].attrs[styleAttributes[k]].idents)

RECURSIVE addImportsAll(_, _, _)
addImportsAll(b, texts, i) ==
    IF i > Len(texts) THEN b ELSE addImportsAll(addImports(b, texts[i]), texts, i + 1)

analyzeVariableDeclarations(d, src, b, fi, e, a, occ) ==
    IF SymbolKind(occ.text) = "ModuleVariable"
    THEN LET export == shouldExport(src, occ.text, e, a)
             b1 == IF export
                   THEN [b EXCEPT !.componentImports =
                            Append(@, [name |-> occ.text, from |-> "@/registry/styles"])]
                   ELSE b
             b2 == addImportsAll(b1, InitializerCallIdents(occ.text), 1)
         IN  [b2 EXCEPT
                !.variables = Append(@, [name |-> occ.text, export |-> export]),
                !.manipulations =
                    Append(@, Manipulation(AfterStyleGeneration, "removeStatement", e, a,
                                           occ.text))]
    ELSE IF SymbolKind(occ.text) = "LocalVariable" /\ d = DraftGroups
    THEN [b EXCEPT
            !.functions[fi].parameters =
                pushParameter(@, Parameter(occ.text, Undefined, SymbolType(occ.text)))]
    ELSE b

\* exisitingParam.type = VariantProps<...>, for the first parameter of each matching name
refineVariantTypes(parameters, text) ==
    [i \in 1..Len(parameters) |->
        IF /\ parameters[i].sourceName \in CvaArgNames(text)
           /\ \A j \in 1..(i - 1) : parameters[j].sourceName # parameters[i].sourceName
        THEN [parameters[i] EXCEPT
                !.type = [text |-> "VariantProps<typeof " \o text \o ">", isOptional |-> TRUE]]
        ELSE parameters[i]]

analyzeClassVarianceAuthority(b, fi, occ) ==
    IF SymbolKind(occ.text) \in {"ModuleVariable", "LocalVariable"} /\ IsCva(occ.text)
    THEN [b EXCEPT
            !.functions[fi].parameters = refineVariantTypes(@, occ.text),
            !.styleImports = Append(@, [name |-> "VariantProps",
                                        from |-> "class-variance-authority"])]
    ELSE b

\* one analyzer over the identifiers `idents` of the attribute, in order
RECURSIVE eachIdentifier(_, _, _, _, _, _, _, _)
eachIdentifier(analyzer, d, src, b, fi, e, a, idents) ==
    IF idents = <<>>
    THEN b
    ELSE LET occ == Head(idents)
             b1 == CASE analyzer = 1 -> analyzeImports(b, occ)
                     [] analyzer = 2 -> analyzeProperties(d, b, fi, e, a, occ)
                     [] analyzer = 3 -> analyzeVariableDeclarations(d, src, b, fi, e, a, occ)
                     [] analyzer = 4 -> analyzeClassVarianceAuthority(b, fi, occ)
         IN  eachIdentifier(analyzer, d, src, b1, fi, e, a, Tail(idents))

\* analyzers.forEach((analyzer) => childIdentifiers.forEach(...))
analyzeAttribute(d, src, b, fi, e, a) ==
    LET b1 == eachIdentifier(1, d, src, b, fi, e, a, childIdentifiers(src, e, a))
        b2 == eachIdentifier(2, d, src, b1, fi, e, a, childIdentifiers(src, e, a))
        b3 == eachIdentifier(3, d, src, b2, fi, e, a, childIdentifiers(src, e, a))
    IN  eachIdentifier(4, d, src, b3, fi, e, a, childIdentifiers(src, e, a))

(***************************************************************************)
(* Markup elements.  An element is read through its ancestors: the         *)
(* function-like declarations around it (nearest first, as getAncestors    *)
(* lists them), the labels of its JsxElement ancestors (nearest first) and *)
(* its allow-listed attributes.                                            *)
(*   function 1  function Card() {...}          (FunctionDeclaration)      *)
(*   function 2  const Item = () => ...         (ArrowFunction in a VariableDeclaration) *)
(*   function 3  export default () => ...       (ArrowFunction, no VariableDeclaration)  *)
(***************************************************************************)
FunctionKind(f) == IF f = 1 THEN "FunctionDeclaration" ELSE "ArrowFunction"

\* FunctionDeclaration.getName(), or the name of the first VariableDeclaration ancestor
DeclaredName(f) ==
    CASE f = 1 -> "Card"
      [] f = 2 -> "Item"
      [] f = 4 -> "Row"
      [] f = 5 -> "Cell"
      [] OTHER -> Undefined

\* a markup element of the source, <tag ... />; source.elems lists the
\* elements in document order.  `inside` is <<>>, or <<e, a>> when the element
\* is written inside the value of attribute a of element e; the idents of an
\* attribute are the identifiers of its value outside such nested elements
Element(enclosing, ancestors, attrs) ==
    [kind |-> "JsxSelfClosingElement", enclosing |-> enclosing, ancestors |-> ancestors,
     attrs |-> attrs, inside |-> <<>>]

\* <tag ... /> written inside the value of attribute a of element e
NestedElement(enclosing, ancestors, attrs, e, a) ==
    [Element(enclosing, ancestors, attrs) EXCEPT !.inside = <<e, a>>]

\* the opening element of <tag ...> ... </tag>
OpeningElement(enclosing, ancestors, attrs) ==
    [Element(enclosing, ancestors, attrs) EXCEPT !.kind = "JsxOpeningElement"]

\* source.getDescendantsOfKind(kind): the positions in document order
getDescendantsOfKind(src, kind) ==
    SelectSeq([e \in 1..Len(src.elems) |-> e], LAMBDA e : src.elems[e].kind = kind)

\* the list processSource iterates: every self-closing element, then every
\* opening element
jsxElements(src) ==
    getDescendantsOfKind(src, "JsxSelfClosingElement")
        \o getDescendantsOfKind(src, "JsxOpeningElement")

Threw == [ok |-> FALSE, name |-> Undefined, rootFunction |-> 0]

\* getStyleFunctionName (DraftGroups) and getRootFunction (DraftUnique): the
\* last entry of the filtered, reversed ancestor list; a missing entry makes
\* rootFunction.isKind throw a TypeError, an unnamed arrow function throws Error
getRootFunction(elem) ==
    IF elem.enclosing = <<>>
    THEN Threw
    ELSE LET rootFunction == elem.enclosing[Len(elem.enclosing)]
         IN  IF DeclaredName(rootFunction) = Undefined
             THEN Threw
             ELSE [ok |-> TRUE, name |-> DeclaredName(rootFunction),
                   rootFunction |-> rootFunction]

getStyleFunctionName(elem) ==
    LET r == getRootFunction(elem)
    IN  IF r.ok THEN [r EXCEPT !.name = @ \o "Styles"] ELSE r

RECURSIVE join(_, _)
join(labels, sep) ==
    IF labels = <<>> THEN ""
    ELSE IF Len(labels) = 1 THEN labels[1]
    ELSE labels[1] \o sep \o join(Tail(labels), sep)

Reverse(s) == [i \in 1..Len(s) |-> s[Len(s) + 1 - i]]

\* n.endsWith("Provider") for the labels of the model
EndsWithProvider(label) == label \in {"Provider", "TooltipProvider"}

RECURSIVE dropProviders(_)
dropProviders(labels) ==
    IF labels = <<>> THEN <<>>
    ELSE IF EndsWithProvider(labels[1]) THEN dropProviders(Tail(labels))
    ELSE <<labels[1]>> \o dropProviders(Tail(labels))

getGroupNameGroups(elem) == join(elem.ancestors, ":")

getGroupNameUnique(elem) == join(Reverse(dropProviders(elem.ancestors)), " ")

\* word.charAt(0).toUpperCase() + word.slice(1) for the words of the model
Capitalize(word) ==
    CASE word = "div" -> "Div"
      [] word = "ul" -> "Ul"
      [] word = "li" -> "Li"
      [] OTHER -> word

RECURSIVE camelCase(_)
camelCase(words) ==
    IF words = <<>> THEN "" ELSE Capitalize(words[1]) \o camelCase(Tail(words))

\* toValidFunctionName(`${rootFunctionName} ${getGroupName(jsxElement)} Styling`) for
\* a Root name and labels that are identifiers: the words, capitalised and joined
styleFunctionNameUnique(rootName, elem) ==
    camelCase(<<rootName>> \o Reverse(dropProviders(elem.ancestors)) \o <<"Styling">>)

(***************************************************************************)
(* One iteration of jsxElements.forEach in processSource.                  *)
(***************************************************************************)
\* a variant that tags the removal of the attribute for the first pass
removeAttributePassEarly == BeforeStyleGeneration

\* the pass of the manipulation that calls attribute.remove()
removeAttributePass == AfterStyleGeneration

\* a variant that asks for the spread for every allow-listed attribute present
addStylePropAlways(attribute) == attribute.present

\* if (initializer) { addStyleProp = true; ... }
addStyleProp(attribute) == attribute.init

\* the styleAttributes.forEach body for attribute k..3 of element e; st carries
\* the builder and addStyleProp
RECURSIVE eachStyleAttribute(_, _, _, _, _, _, _)
eachStyleAttribute(d, src, st, fi, gi, e, k) ==
    IF k > Len(styleAttributes)
    THEN st
    ELSE LET a == styleAttributes[k]
             attribute == src.elems[e].attrs[a]
         IN  IF ~attribute.present
             THEN eachStyleAttribute(d, src, st, fi, gi, e, k + 1)
             ELSE LET b1 == analyzeAttribute(d, src, st.b, fi, e, a)
                      capture == [Manipulation(BeforeStyleGeneration, "captureProperty", e, a, a)
                                    EXCEPT !.target = [fn |-> fi, group |-> gi]]
                      b2 == IF attribute.init
                            THEN [b1 EXCEPT !.manipulations = Append(@, capture)]
                            ELSE b1
                      b3 == [b2 EXCEPT !.manipulations =
                                Append(@, Manipulation(removeAttributePass, "removeAttribute",
                                                       e, a, a))]
                  IN  eachStyleAttribute(d, src,
                          [b |-> b3, addStyleProp |-> st.addStyleProp \/ addStyleProp(attribute)],
                          fi, gi, e, k + 1)

\* the forEach body for element e, given the StyleFunction fi and group gi it got
analyzeElementWith(d, src, b, fi, gi, e) ==
    LET st == eachStyleAttribute(d, src, [b |-> b, addStyleProp |-> FALSE], fi, gi, e, 1)
    IN  IF st.addStyleProp
        THEN [st.b EXCEPT !.manipulations =
                 Append(@, [Manipulation(AfterStyleGeneration, "insertSpread", e, Undefined,
                                         Undefined)
                              EXCEPT !.target = [fn |-> fi, group |-> gi]])]
        ELSE st.b

analyzeElementGroups(src, b, e) ==
    LET r == getStyleFunctionName(src.elems[e])
        gf == getFunction(b.functions, r.name, r.rootFunction, FALSE)
        cg == createGroup(gf.functions[gf.index].groups, getGroupNameGroups(src.elems[e]))
        b1 == [b EXCEPT !.functions = [gf.functions EXCEPT ![gf.index].groups = cg.groups]]
    IN  analyzeElementWith(DraftGroups, src, b1, gf.index, cg.index, e)

analyzeElementUnique(src, b, e) ==
    LET r == getRootFunction(src.elems[e])
        gf == getFunction(b.functions, styleFunctionNameUnique(r.name, src.elems[e]),
                          r.rootFunction, TRUE)
        b1 == [b EXCEPT !.functions = gf.functions]
    IN  analyzeElementWith(DraftUnique, src, b1, gf.index, 0, e)

analyzeElement(d, src, b, e) ==
    IF d = DraftGroups THEN analyzeElementGroups(src, b, e) ELSE analyzeElementUnique(src, b, e)

SetBuilder(b) ==
    /\ functions' = b.functions
    /\ variables' = b.variables
    /\ styleImports' = b.styleImports
    /\ componentImports' = b.componentImports
    /\ manipulations' = b.manipulations

EmptyBuilder ==
    /\ functions = <<>>
    /\ variables = <<>>
    /\ styleImports = <<>>
    /\ componentImports = <<>>
    /\ manipulations = <<>>

NoSource == [elems |-> <<>>, otherRefs |-> {}]
NoCall == [op |-> "none"]

NoTree == [attrs |-> <<>>, spreads |-> <<>>, removedStatements |-> {}, rewrites |-> <<>>,
           imports |-> <<>>, injected |-> <<>>, pruned |-> FALSE, order |-> <<>>]
NotGenerated == [done |-> FALSE]
NoWrites == [copy |-> "none", style |-> "none"]

\* the job variables of a specification that runs no job
JobIdle ==
    /\ cursor = 0
    /\ passQueue = <<>>
    /\ tree = NoTree
    /\ generated = NotGenerated
    /\ writes = NoWrites
    /\ task = "none"

\* jsxElements.forEach body: the next element is analysed, or naming its Root throws
AnalyzeElement ==
    /\ pc = "analyze"
    /\ cursor < Len(source.elems)
    /\ IF getRootFunction(source.elems[jsxElements(source)[cursor + 1]]).ok
       THEN /\ SetBuilder(analyzeElement(draft, source, Builder,
                                        jsxElements(source)[cursor + 1]))
            /\ cursor' = cursor + 1
            /\ pc' = pc
       ELSE /\ pc' = "threw"
            /\ UNCHANGED <<cursor, builderVars>>
    /\ UNCHANGED <<draft, source, lastCall, passQueue, tree, generated, writes, task>>

(***************************************************************************)
(* The import declarations of a source file and removeUnusedImports.       *)
(* A declaration has named specifiers, a default import and a namespace    *)
(* import (Undefined when absent).  findReferences on a binding yields the *)
(* binding's own node in the import statement, `uses[name]` further nodes  *)
(* in the same file and `foreign[name]` nodes in other files of the        *)
(* project.                                                                *)
(***************************************************************************)
ImportDeclaration(module, named, defaultImport, namespaceImport) ==
    [module |-> module, named |-> named, defaultImport |-> defaultImport,
     namespaceImport |-> namespaceImport]

\* isReferenceUsed(ref) for the binding's own node: its parent is an
\* ImportSpecifier for a named import, an ImportClause for a default import
\* and a NamespaceImport for a namespace import
ownNodeUsed(kind) == kind # "named"

\* getUsedReferences(...).length for one binding
usedReferences(d, kind, name, uses, foreign) ==
    (IF ownNodeUsed(kind) THEN 1 ELSE 0)
    + uses[name]
    + (IF d = DraftGroups THEN foreign[name] ELSE 0)

SelectNames(names, Keep(_)) == SelectSeq(names, Keep)

\* the loop body of removeUnusedImports for one declaration, followed by the
\* remove() calls it queued: what is left of the declaration (<<>> if removed)
pruneDeclaration(d, decl, uses, foreign) ==
    LET refs(name) == usedReferences(d, "named", name, uses, foreign)
        usedNamed == {i \in 1..Len(decl.named) : refs(decl.named[i]) > 0}
        usedDefault ==
            /\ decl.defaultImport # Undefined
            /\ usedReferences(d, "default", decl.defaultImport, uses, foreign) > 0
        usedNamespace ==
            /\ decl.namespaceImport # Undefined
            /\ usedReferences(d, "namespace", decl.namespaceImport, uses, foreign) > 0
        used == usedNamed # {} \/ usedDefault \/ usedNamespace
    IN  IF ~used
        THEN <<>>
        ELSE <<[decl EXCEPT !.named = SelectNames(decl.named, LAMBDA n : refs(n) > 0)]>>

RECURSIVE removeUnusedImports(_, _, _, _)
removeUnusedImports(d, decls, uses, foreign) ==
    IF decls = <<>>
    THEN <<>>
    ELSE pruneDeclaration(d, decls[1], uses, foreign)
         \o removeUnusedImports(d, Tail(decls), uses, foreign)

BindingNames(decls) ==
    UNION {Range(decls[i].named) \cup ({decls[i].defaultImport, decls[i].namespaceImport}
                                        \ {Undefined}) : i \in 1..Len(decls)}

\* Array.from(new Set(arr))
RECURSIVE distinct(_)
distinct(arr) ==
    IF arr = <<>> THEN <<>>
    ELSE LET init == distinct(SubSeq(arr, 1, Len(arr) - 1))
             last == arr[Len(arr)]
         IN  IF last \in Range(init) THEN init ELSE Append(init, last)

\* addImportsToSourceFile(imports, source): one declaration per module specifier,
\* appended to the declarations of the file (all ImportInfo of the model are named)
addImportsToSourceFile(imports, decls) ==
    LET modules == distinct([i \in 1..Len(imports) |-> imports[i].from])
        namesOf(m) == distinct([i \in 1..Len(SelectSeq(imports, LAMBDA x : x.from = m)) |->
                                    SelectSeq(imports, LAMBDA x : x.from = m)[i].name])
    IN  decls \o [k \in 1..Len(modules) |->
                     ImportDeclaration(modules[k], namesOf(modules[k]), Undefined, Undefined)]

(***************************************************************************)
(* The extraction job: processSource, then saveResults.                    *)
(*   pc = "analyze"   the jsxElements.forEach loop                         *)
(*        "before"    runManipulations(BeforeStyleGeneration) is calling   *)
(*        "generate"  saveResults is about to call createStyleObject       *)
(*        "after"     runManipulations(AfterStyleGeneration) is calling    *)
(*        "inject"    the inject loop (DraftGroups)                        *)
(*        "prune"     removeUnusedImports is next                          *)
(*        "copy"      source.copy and the two save() calls are next        *)
(*        "returned"  processSource returned { task }                      *)
(*        "threw"     processSource threw: its promise is rejected         *)
(***************************************************************************)
StylingModule == "@/registry/styles"

\* the imports the component file starts with
SourceImports ==
    <<ImportDeclaration("@/lib/utils", <<"cn">>, Undefined, Undefined),
      ImportDeclaration("class-variance-authority", <<"cva">>, Undefined, Undefined)>>

\* an attribute outside the allow-list, which every element of the model carries first
OtherAttribute == "ref"
SpreadAttribute == "{...}"

\* a variant that appends the structure after the last attribute
insertAttributeLast(attributes, index, structure) == Append(attributes, structure)

\* jsxElement.insertAttribute(index, structure)
insertAttribute(attributes, index, structure) ==
    SubSeq(attributes, 1, index) \o <<structure>> \o SubSeq(attributes, index + 1, Len(attributes))

InitialTree(src) ==
    [attrs |-> [e \in 1..Len(src.elems) |->
                   [a \in Range(styleAttributes) |->
                       IF src.elems[e].attrs[a].present THEN "present" ELSE "absent"]],
     spreads |-> [e \in 1..Len(src.elems) |-> <<>>],
     removedStatements |-> {},
     rewrites |-> <<>>,
     imports |-> SourceImports,
     injected |-> <<>>,
     pruned |-> FALSE,
     order |-> [e \in 1..Len(src.elems) |->
                   <<OtherAttribute>> \o SelectSeq(styleAttributes,
                                                  LAMBDA a : src.elems[e].attrs[a].present)]]

\* a variant of the filter that keeps every manipulation, whatever its pass
passActionsAny(ms, pass) == [i \in 1..Len(ms) |-> i]

\* a variant of the filter that misses the manipulation queued last
passActionsButLast(ms, pass) ==
    SelectSeq([i \in 1..Len(ms) |-> i], LAMBDA i : ms[i].pass = pass /\ i < Len(ms))

\* this.manipulations.filter((m) => m.pass === pass), as indices into the list
passActions(ms, pass) ==
    SelectSeq([i \in 1..Len(ms) |-> i], LAMBDA i : ms[i].pass = pass)

\* record[key] = getter: a new key goes last, an existing key keeps its place
setProperty(properties, key, e) ==
    IF \E i \in 1..Len(properties) : properties[i].name = key
    THEN [i \in 1..Len(properties) |->
             IF properties[i].name = key THEN [name |-> key, elem |-> e] ELSE properties[i]]
    ELSE Append(properties, [name |-> key, elem |-> e])

\* distinctBy(parameters, (p) => p.sourceName).map(toPropertyAssignment), as names
argumentNames(parameters) ==
    distinct([i \in 1..Len(parameters) |-> parameters[i].sourceName])

\* the key toPropertyAssignment(variable) writes: `dest: source`, or the
\* shorthand `source`
toPropertyAssignment(variable) ==
    IF variable.destinationName = Undefined \/ variable.destinationName = variable.sourceName
    THEN variable.sourceName
    ELSE variable.destinationName

\* distinctBy(parameters, (p) => p.sourceName).map(toPropertyAssignment): the keys
argumentKeys(parameters) ==
    LET first == SelectSeq([i \in 1..Len(parameters) |-> i],
                           LAMBDA i : \A j \in 1..(i - 1) :
                                         parameters[j].sourceName # parameters[i].sourceName)
    IN  [k \in 1..Len(first) |-> toPropertyAssignment(parameters[first[k]])]

\* callGetStyles(functionBuilder) (DraftUnique) and the stylesCode of inject (DraftGroups)
callGetStyles(f) ==
    [kind |-> "call", name |-> f.name, args |-> argumentNames(f.parameters),
     keys |-> argumentKeys(f.parameters)]

\* a variant that keeps every StyleFunction and every group
cleanupBuilderKeepAll(d, fs) == fs

\* cleanupBuilder(styleBuilder).style.functions
cleanupBuilder(d, fs) ==
    IF d = DraftGroups
    THEN LET modified == [i \in 1..Len(fs) |->
                             [fs[i] EXCEPT !.groups =
                                 SelectSeq(@, LAMBDA g : Len(g.properties) > 0)]]
         IN  SelectSeq(modified, LAMBDA f : Len(f.groups) > 0)
    ELSE SelectSeq(fs, LAMBDA f : Len(f.properties) > 0)

InitJob ==
    /\ draft \in Drafts
    /\ EmptyBuilder
    /\ lastCall = NoCall
    /\ pc = "analyze"
    /\ cursor = 0
    /\ passQueue = <<>>
    /\ tree = InitialTree(source)
    /\ generated = NotGenerated
    /\ writes = NoWrites
    /\ task = "none"

\* styleBuilder.runManipulations(ManipulationPass.BeforeStyleGeneration) is entered
BeginBefore ==
    /\ pc = "analyze"
    /\ cursor = Len(source.elems)
    /\ passQueue' = passActions(manipulations, BeforeStyleGeneration)
    /\ pc' = "before"
    /\ UNCHANGED <<draft, source, builderVars, lastCall, cursor, tree, generated, writes, task>>

\* actions.forEach((action) => action()): the next closure of the pass is called
RunAction ==
    /\ pc \in {"before", "after"}
    /\ passQueue # <<>>
    /\ LET i == Head(passQueue)
           m == manipulations[i]
           ran == [manipulations EXCEPT ![i].runs = @ + 1]
           throws == \/ m.kind = "removeStatement" /\ m.target \in tree.removedStatements
                     \/ m.kind = "removeAttribute" /\ tree.attrs[m.elem][m.attr] # "present"
       IN  /\ manipulations' = ran
           /\ IF throws
              THEN /\ passQueue' = <<>>
                   /\ IF pc = "before"
                      THEN pc' = "threw" /\ task' = task
                      ELSE pc' = "returned" /\ task' = "rejected"
                   /\ UNCHANGED <<functions, tree>>
              ELSE /\ passQueue' = Tail(passQueue)
                   /\ UNCHANGED <<pc, task>>
                   /\ functions' =
                        IF m.kind # "captureProperty" THEN functions
                        ELSE IF draft = DraftGroups
                        THEN [functions EXCEPT
                                ![m.target.fn].groups[m.target.group].properties =
                                    setProperty(@, m.attr, m.elem)]
                        ELSE [functions EXCEPT
                                ![m.target.fn].properties = setProperty(@, m.attr, m.elem)]
                   /\ tree' =
                        CASE m.kind = "replaceWithText" ->
                               [tree EXCEPT !.rewrites = Append(@, <<m.elem, m.attr>>)]
                          [] m.kind = "removeStatement" ->
                               [tree EXCEPT !.removedStatements = @ \cup {m.target}]
                          [] m.kind = "removeAttribute" ->
                               [tree EXCEPT !.attrs[m.elem][m.attr] = "removed",
                                            !.order[m.elem] =
                                                SelectSeq(@, LAMBDA a : a # m.attr)]
                          [] m.kind = "insertSpread" ->
                               [tree EXCEPT !.spreads[m.elem] =
                                   <<IF draft = DraftGroups
                                     THEN [kind |-> "styles",
                                           name |-> functions[m.target.fn]
                                                        .groups[m.target.group].name,
                                           args |-> <<>>]
                                     ELSE callGetStyles(functions[m.target.fn])>> \o @,
                                   !.order[m.elem] = insertAttribute(@, 0, SpreadAttribute)]
                          [] m.kind = "addComponentImports" ->
                               [tree EXCEPT !.imports =
                                   addImportsToSourceFile(componentImports, @)]
                          [] OTHER -> tree
    /\ UNCHANGED <<draft, source, variables, styleImports, componentImports, lastCall,
                   cursor, generated, writes>>

\* processSource between the first pass and the call of saveResults: the imports
\* of the generated module, the import of `styling`, and its queued insertion
EndBefore ==
    /\ pc = "before"
    /\ passQueue = <<>>
    /\ generated' = [done |-> FALSE,
                     imports |-> IF functions = <<>> THEN <<>>
                                 ELSE addImportsToSourceFile(styleImports, <<>>)]
    /\ componentImports' = Append(componentImports, [name |-> "styling", from |-> StylingModule])
    /\ manipulations' = Append(manipulations,
                               Manipulation(AfterStyleGeneration, "addComponentImports", 0,
                                            Undefined, Undefined))
    /\ pc' = "generate"
    /\ UNCHANGED <<draft, source, functions, variables, styleImports, lastCall, cursor,
                   passQueue, tree, writes, task>>

\* the getter calls of createStyleObject: every property of every emitted group
propertyReads(d, fs) ==
    UNION {IF d = DraftGroups
           THEN UNION {{[elem |-> fs[i].groups[g].properties[k].elem,
                         attr |-> fs[i].groups[g].properties[k].name] :
                            k \in 1..Len(fs[i].groups[g].properties)} :
                       g \in 1..Len(fs[i].groups)}
           ELSE {[elem |-> fs[i].properties[k].elem, attr |-> fs[i].properties[k].name] :
                    k \in 1..Len(fs[i].properties)} :
           i \in 1..Len(fs)}

\* the parameter clause createStyleObject writes between get<Name>( and ):
\* DraftGroups always writes {names}: <Name>Props, DraftUnique writes nothing
\* for a function without parameters; `= {}` follows when addDefault
parameterClause(d, f) ==
    LET names == distinct([i \in 1..Len(f.parameters) |->
                              IF f.parameters[i].destinationName # Undefined
                              THEN f.parameters[i].destinationName
                              ELSE f.parameters[i].sourceName])
        \* p.type === null || p.type.isOptional; no parameter is built with a null type
        every == \A i \in 1..Len(f.parameters) : f.parameters[i].type.isOptional
    IN  IF d = DraftGroups
        THEN [omitted |-> FALSE, names |-> names, type |-> f.name \o "Props",
              addDefault |-> every]
        ELSE [omitted |-> Len(f.parameters) = 0, names |-> names, type |-> f.name \o "Props",
              addDefault |-> Len(f.parameters) > 0 /\ every]

\* createStyleObject(styleSource, cleanupBuilder(styleBuilder)), followed by the
\* entry of runManipulations(ManipulationPass.AfterStyleGeneration)
CreateStyleObject ==
    /\ pc = "generate"
    /\ LET fs == cleanupBuilder(draft, functions)
           reads == propertyReads(draft, fs)
           stale == {r \in reads : tree.attrs[r.elem][r.attr] # "present"}
       IN  /\ generated' = [done |-> TRUE,
                            imports |-> generated.imports,
                            interfaces |-> IF draft = DraftGroups THEN fs
                                           ELSE SelectSeq(fs, LAMBDA f : Len(f.parameters) > 0),
                            variables |-> variables,
                            accessors |-> fs,
                            clauses |-> [i \in 1..Len(fs) |-> parameterClause(draft, fs[i])],
                            reads |-> reads,
                            staleReads |-> stale]
           /\ IF stale # {}
              THEN pc' = "returned" /\ task' = "rejected" /\ passQueue' = <<>>
              ELSE /\ pc' = "after"
                   /\ task' = task
                   /\ passQueue' = passActions(manipulations, AfterStyleGeneration)
    /\ UNCHANGED <<draft, source, builderVars, lastCall, cursor, tree, writes>>

\* body kind of arrow function 2
\* rootFunction.getBody().getKind() of the arrow functions of the model:
\* Item = () => { return <div/> }, Row = () => (<div/>), Cell = () => <div/>
ArrowBody(f) ==
    CASE f = 4 -> "ParenthesizedExpression"
      [] f = 5 -> "JsxSelfClosingElement"
      [] OTHER -> "Block"

\* inject(functionBuilder): how the accessor call gets into Root f, if at all
injectMode(f) ==
    IF FunctionKind(f) = "FunctionDeclaration" \/ ArrowBody(f) = "Block"
    THEN "insertStatements"
    ELSE IF ArrowBody(f) = "ParenthesizedExpression"
    THEN "convertToBlock"
    ELSE "none"

\* the statement inject adds: const styles = styling.get<Name>(<args>)
injected(f) ==
    [kind |-> "call", name |-> f.name, args |-> argumentNames(f.parameters),
     keys |-> argumentKeys(f.parameters),
     root |-> f.rootFunction, mode |-> injectMode(f.rootFunction)]

\* the end of the second pass; in DraftGroups the inject loop follows
EndAfter ==
    /\ pc = "after"
    /\ passQueue = <<>>
    /\ LET fs == cleanupBuilder(draft, functions)
           calls == SelectSeq(fs, LAMBDA f : injectMode(f.rootFunction) # "none")
       IN  tree' = IF draft = DraftGroups
                   THEN [tree EXCEPT !.injected =
                            [i \in 1..Len(calls) |-> injected(calls[i])]]
                   ELSE tree
    /\ pc' = "prune"
    /\ UNCHANGED <<draft, source, builderVars, lastCall, cursor, passQueue, generated,
                   writes, task>>

\* references to `name` in the component file other than an import's own node
RECURSIVE count(_, _)
count(s, x) ==
    IF s = <<>> THEN 0 ELSE (IF s[1] = x THEN 1 ELSE 0) + count(Tail(s), x)

usesInTree(src, t, name) ==
    LET inAttr(e, a) == IF t.attrs[e][a] = "present"
                        THEN count([i \in 1..Len(src.elems[e].attrs[a].idents) |->
                                       src.elems[e].attrs[a].idents[i].text], name)
                        ELSE 0
        RECURSIVE inElems(_)
        inElems(e) == IF e = 0 THEN 0
                      ELSE inAttr(e, "className") + inAttr(e, "style") + inAttr(e, "classNames")
                           + inElems(e - 1)
        spreadCalls == Cardinality({e \in 1..Len(t.spreads) :
                                       \E k \in 1..Len(t.spreads[e]) :
                                           t.spreads[e][k].kind = "call"})
    IN  inElems(Len(src.elems))
        + (IF name \in src.otherRefs THEN 1 ELSE 0)
        + (IF "variants" \notin t.removedStatements
           THEN count(InitializerCallIdents("variants"), name) ELSE 0)
        + (IF name = "styling" THEN Len(t.injected) + spreadCalls ELSE 0)

\* removeUnusedImports(source)
RemoveUnusedImports ==
    /\ pc = "prune"
    /\ LET names == BindingNames(tree.imports)
           uses == [n \in names |-> usesInTree(source, tree, n)]
           foreign == [n \in names |-> 0]
       IN  tree' = [tree EXCEPT !.imports = removeUnusedImports(draft, @, uses, foreign),
                                !.pruned = TRUE]
    /\ pc' = "copy"
    /\ UNCHANGED <<draft, source, builderVars, lastCall, cursor, passQueue, generated,
                   writes, task>>

\* source.copy(...), copiedFile.save() and styleSource.save() are called;
\* saveResults suspends in await Promise.all and processSource returns { task }
IssueWrites ==
    /\ pc = "copy"
    /\ writes' = [copy |-> "pending", style |-> "pending"]
    /\ task' = "pending"
    /\ pc' = "returned"
    /\ UNCHANGED <<draft, source, builderVars, lastCall, cursor, passQueue, tree, generated>>

\* a variant that settles on the first write to finish, like Promise.race
settleFirst(ws, t) ==
    IF t # "pending" THEN t
    ELSE IF "saved" \in {ws.copy, ws.style} THEN "resolved"
    ELSE IF "failed" \in {ws.copy, ws.style} THEN "rejected"
    ELSE "pending"

\* Promise.all over the two writes, once write w became `outcome`
settle(ws, t) ==
    IF t # "pending" THEN t
    ELSE IF "failed" \in {ws.copy, ws.style} THEN "rejected"
    ELSE IF ws.copy = "saved" /\ ws.style = "saved" THEN "resolved"
    ELSE "pending"

\* one of the two save() promises settles
WriteSettles ==
    \E w \in {"copy", "style"}, outcome \in {"saved", "failed"} :
        /\ writes[w] = "pending"
        /\ writes' = [writes EXCEPT ![w] = outcome]
        /\ task' = settle(writes', task)
        /\ UNCHANGED <<draft, source, builderVars, lastCall, pc, cursor, passQueue, tree,
                       generated>>

(***************************************************************************)
(* Spec: one extraction job over a component of up to MaxElems elements.   *)
(***************************************************************************)
Lit == Attribute(TRUE, <<>>)
NoStyleAttributes == [className |-> NoAttribute, style |-> NoAttribute, classNames |-> NoAttribute]

AttributeShapes ==
    {NoStyleAttributes,
     [NoStyleAttributes EXCEPT !.className = Lit],
     [NoStyleAttributes EXCEPT !.className = Attribute(FALSE, <<>>)],
     [NoStyleAttributes EXCEPT
        !.className = Attribute(TRUE, <<[text |-> "cn", access |-> FALSE],
                                        [text |-> "size", access |-> TRUE]>>)],
     [NoStyleAttributes EXCEPT
        !.className = Attribute(TRUE, <<[text |-> "variants", access |-> FALSE],
                                        [text |-> "size", access |-> FALSE]>>),
        !.style = Lit]}

ElementShapes ==
    {Element(<<1>>, anc, attrs) : anc \in {<<>>, <<"div">>}, attrs \in AttributeShapes}
    \cup {Element(<<f>>, <<>>, [NoStyleAttributes EXCEPT !.className = Lit]) : f \in {2, 4, 5}}
    \cup {Element(<<>>, <<>>, attrs) :
             attrs \in {NoStyleAttributes, [NoStyleAttributes EXCEPT !.className = Lit]}}

JobSources ==
    {[elems |-> elems, otherRefs |-> other] :
        elems \in SeqsUpTo(ElementShapes, MaxElems), other \in {{}, {"cn", "variants"}}}

Init ==
    /\ source \in JobSources
    /\ InitJob

Next ==
    \/ AnalyzeElement
    \/ BeginBefore
    \/ RunAction
    \/ EndBefore
    \/ CreateStyleObject
    \/ EndAfter
    \/ RemoveUnusedImports
    \/ IssueWrites
    \/ WriteSettles

Spec == Init /\ [][Next]_vars

(***************************************************************************)
(* SpecPrune: removeUnusedImports called on a file whose bindings have     *)
(* any number of references up to MaxUses, in the file and outside it.     *)
(* source.uses and source.foreign count them; tree.imports is the file's   *)
(* list of import declarations.                                            *)
(***************************************************************************)
DeclarationShapes ==
    {ImportDeclaration("m", named, dflt, ns) :
        named \in {<<>>, <<"a">>, <<"a", "b">>},
        dflt \in {Undefined, "D"},
        ns \in {Undefined, "N"}}

\* import declarations a TypeScript file can hold: a namespace import excludes
\* named imports, and the second declaration binds other names than the first
PrunableFiles ==
    LET single == {d \in DeclarationShapes : d.namespaceImport = Undefined \/ d.named = <<>>}
        second == {ImportDeclaration("m2", <<"c">>, Undefined, Undefined),
                   ImportDeclaration("m2", <<>>, "E", Undefined),
                   ImportDeclaration("m2", <<>>, Undefined, Undefined)}
        third == {ImportDeclaration("m3", <<"f">>, Undefined, Undefined)}
        upTo(n) == IF n = 0 THEN {<<>>}
                   ELSE IF n = 1 THEN {<<d>> : d \in single}
                   ELSE IF n = 2 THEN {<<d, e>> : d \in single, e \in second}
                   ELSE {<<d, e, f>> : d \in single, e \in second, f \in third}
    IN  UNION {upTo(n) : n \in 1..MaxDecls}

InitPrune ==
    /\ draft \in Drafts
    /\ EmptyBuilder
    /\ lastCall = NoCall
    /\ pc = "prune"
    /\ cursor = 0
    /\ passQueue = <<>>
    /\ generated = NotGenerated
    /\ writes = NoWrites
    /\ task = "none"
    /\ \E decls \in PrunableFiles :
         /\ tree = [NoTree EXCEPT !.imports = decls]
         /\ \E uses \in [BindingNames(decls) -> 0..MaxUses],
               foreign \in [BindingNames(decls) -> 0..MaxUses] :
              source = [elems |-> <<>>, otherRefs |-> {}, uses |-> uses, foreign |-> foreign]

\* removeUnusedImports(sourceFile)
PruneFile ==
    /\ pc = "prune"
    /\ tree' = [tree EXCEPT !.imports =
                                 removeUnusedImports(draft, @, source.uses, source.foreign),
                             !.pruned = TRUE]
    /\ lastCall' = [op |-> "removeUnusedImports", before |-> tree.imports]
    /\ pc' = "copy"
    /\ UNCHANGED <<draft, source, builderVars, cursor, passQueue, generated, writes, task>>

NextPrune == PruneFile

SpecPrune == InitPrune /\ [][NextPrune]_vars

(***************************************************************************)
(* SpecCoord: the action of the `extract` command.  processSource has no   *)
(* await before saveResults suspends, so one call is one step.  Here       *)
(*   source  is the list of components (one source file each),             *)
(*   cursor  counts the calls of processSource that returned,              *)
(*   task    holds, per component, the state of result.task,               *)
(*   writes  holds, per component, the state of its two save() promises,   *)
(*   pc      is "loop", "awaitAll", or how the action's promise settled.   *)
(***************************************************************************)
\* the builder after jsxElements.forEach over the first n elements
RECURSIVE analyzeElements(_, _, _)
analyzeElements(d, src, n) ==
    IF n = 0
    THEN [functions |-> <<>>, variables |-> <<>>, styleImports |-> <<>>,
          componentImports |-> <<>>, manipulations |-> <<>>]
    ELSE analyzeElement(d, src, analyzeElements(d, src, n - 1), jsxElements(src)[n])

\* the forEach of processSource throws: some element has no nameable Root
analysisThrows(src) ==
    \E e \in 1..Len(src.elems) : ~getRootFunction(src.elems[e]).ok

\* some statement is the target of two queued statement.remove() calls
removesTwice(ms) ==
    \E i, j \in 1..Len(ms) :
        /\ i < j
        /\ ms[i].kind = "removeStatement"
        /\ ms[j].kind = "removeStatement"
        /\ ms[i].target = ms[j].target

\* the second pass throws: a statement is removed that was removed before
secondPassThrows(d, src) ==
    removesTwice(analyzeElements(d, src, Len(src.elems)).manipulations)

\* how one call of processSource ends
processSource(d, src) ==
    IF analysisThrows(src) THEN "threw"
    ELSE IF secondPassThrows(d, src) THEN "rejected"
    ELSE "pending"

Plain == Element(<<1>>, <<>>, [NoStyleAttributes EXCEPT !.className = Lit])
Rootless == Element(<<>>, <<>>, [NoStyleAttributes EXCEPT !.className = Lit])
Variant ==
    Element(<<1>>, <<>>,
            [NoStyleAttributes EXCEPT
                !.className = Attribute(TRUE, <<[text |-> "variants", access |-> FALSE]>>)])

Components ==
    {[elems |-> elems, otherRefs |-> {}] :
        elems \in {<<Plain>>, <<Rootless>>, <<Variant, Variant>>}}

InitCoord ==
    /\ draft \in Drafts
    /\ EmptyBuilder
    /\ lastCall = NoCall
    /\ pc = "loop"
    /\ cursor = 0
    /\ passQueue = <<>>
    /\ tree = NoTree
    /\ generated = NotGenerated
    /\ \E n \in 1..MaxComponents :
         /\ source \in [1..n -> Components]
         /\ task = [i \in 1..n |-> "none"]
         /\ writes = [i \in 1..n |-> NoWrites]

\* const result = await processSource(...); tasks.push(result.task)
ProcessSource ==
    /\ pc = "loop"
    /\ cursor < Len(source)
    /\ LET c == cursor + 1
           result == processSource(draft, source[c])
       IN  IF result = "threw"
           THEN /\ pc' = "rejected"
                /\ UNCHANGED <<cursor, task, writes>>
           ELSE /\ pc' = pc
                /\ cursor' = c
                /\ task' = [task EXCEPT ![c] = result]
                /\ writes' = [writes EXCEPT ![c] =
                                 IF result = "pending"
                                 THEN [copy |-> "pending", style |-> "pending"]
                                 ELSE @]
    /\ UNCHANGED <<draft, source, builderVars, lastCall, passQueue, tree, generated>>

\* await Promise.all(tasks) is reached
AwaitTasks ==
    /\ pc = "loop"
    /\ cursor = Len(source)
    /\ pc' = "awaitAll"
    /\ UNCHANGED <<draft, source, builderVars, lastCall, cursor, passQueue, tree, generated,
                   writes, task>>

\* Promise.all(tasks) settles, and with it the action
TasksSettle ==
    /\ pc = "awaitAll"
    /\ \/ /\ \E c \in 1..Len(task) : task[c] = "rejected"
          /\ pc' = "rejected"
       \/ /\ \A c \in 1..Len(task) : task[c] = "resolved"
          /\ pc' = "resolved"
    /\ UNCHANGED <<draft, source, builderVars, lastCall, cursor, passQueue, tree, generated,
                   writes, task>>

\* a save() promise of some component settles; no callback runs while the
\* loop of the action is still being resumed from the microtask queue
TaskWriteSettles ==
    /\ pc # "loop"
    /\ \E c \in 1..Len(writes), w \in {"copy", "style"}, outcome \in {"saved", "failed"} :
        /\ writes[c][w] = "pending"
        /\ writes' = [writes EXCEPT ![c][w] = outcome]
        /\ task' = [task EXCEPT ![c] = settle(writes'[c], @)]
    /\ UNCHANGED <<draft, source, builderVars, lastCall, pc, cursor, passQueue, tree,
                   generated>>

NextCoord ==
    \/ ProcessSource
    \/ AwaitTasks
    \/ TasksSettle
    \/ TaskWriteSettles

SpecCoord == InitCoord /\ [][NextCoord]_vars

(***************************************************************************)
(* SpecInterleave: the action of the `extract` command with the calls of   *)
(* processSource taken one statement at a time.  An async function runs    *)
(* on its caller's stack up to its first await; `await processSource(...)` *)
(* in the loop resumes once processSource returned, which it does as soon  *)
(* as saveResults suspends.  Here, besides the variables of SpecCoord,     *)
(*   tree[c]  is the log of the statements component c's call has run.     *)
(***************************************************************************)
\* the statements of processSource and saveResults that touch the trees,
\* followed by the copy and the two save() calls
pipeline(d) ==
    <<"analyze", "runManipulations(Before)", "createStyleObject", "runManipulations(After)">>
    \o (IF d = DraftGroups THEN <<"inject">> ELSE <<>>)
    \o <<"removeUnusedImports", "save">>

\* a variant in which saveResults awaits right after createStyleObject
firstAwaitEarly == "createStyleObject"

\* the statement after which saveResults reaches its first await
firstAwait == "save"

\* the call for component c has handed control back to the loop
suspended(log) == firstAwait \in Range(log) \/ "threw" \in Range(log)

\* no statement of the call is left to run
finished(d, log) == Len(log) = Len(pipeline(d)) + 1 \/ "threw" \in Range(log)

InitInterleave ==
    /\ draft \in Drafts
    /\ EmptyBuilder
    /\ lastCall = NoCall
    /\ pc = "loop"
    /\ cursor = 0
    /\ passQueue = <<>>
    /\ generated = NotGenerated
    /\ \E n \in 1..MaxComponents :
         /\ source \in [1..n -> Components]
         /\ tree = [c \in 1..n |-> <<>>]
         /\ task = [c \in 1..n |-> "none"]
         /\ writes = [c \in 1..n |-> NoWrites]

\* processSource({ componentName, ... }) is called by the loop
CallProcessSource ==
    /\ pc = "loop"
    /\ cursor < Len(source)
    /\ tree[cursor + 1] = <<>>
    /\ tree' = [tree EXCEPT ![cursor + 1] = <<"called">>]
    /\ UNCHANGED <<draft, source, builderVars, lastCall, pc, cursor, passQueue, generated,
                   writes, task>>

\* the statement throws: naming a Root fails, or a statement is removed twice
stepThrows(d, src, step) ==
    \/ step = "analyze" /\ analysisThrows(src)
    \/ step = "runManipulations(After)" /\ secondPassThrows(d, src)

\* the next statement of the call for component c runs
PipelineStep ==
    \E c \in 1..Len(source) :
        /\ tree[c] # <<>>
        /\ ~finished(draft, tree[c])
        /\ \E step \in {pipeline(draft)[Len(tree[c])]} :
           \E throws \in {stepThrows(draft, source[c], step)} :
               /\ tree' = [tree EXCEPT ![c] = Append(@, IF throws THEN "threw" ELSE step)]
               /\ pc' = IF throws /\ step = "analyze" THEN "rejected" ELSE pc
               /\ task' = [task EXCEPT ![c] =
                              IF throws /\ step # "analyze" THEN "rejected"
                              ELSE IF step = "save" THEN "pending"
                              ELSE @]
               /\ writes' = [writes EXCEPT ![c] =
                                IF step = "save" /\ ~throws
                                THEN [copy |-> "pending", style |-> "pending"]
                                ELSE @]
        /\ UNCHANGED <<draft, source, builderVars, lastCall, cursor, passQueue, generated>>

\* `await processSource(...)` resumes; tasks.push(result.task)
ResumeLoop ==
    /\ pc = "loop"
    /\ cursor < Len(source)
    /\ tree[cursor + 1] # <<>>
    /\ suspended(tree[cursor + 1])
    /\ cursor' = cursor + 1
    /\ UNCHANGED <<draft, source, builderVars, lastCall, pc, passQueue, tree, generated,
                   writes, task>>

NextInterleave ==
    \/ CallProcessSource
    \/ PipelineStep
    \/ ResumeLoop
    \/ AwaitTasks
    \/ TasksSettle
    \/ TaskWriteSettles

SpecInterleave == InitInterleave /\ [][NextInterleave]_vars

(***************************************************************************)
(* SpecWorker: processSourceThread.  Each call constructs a Worker and     *)
(* returns a promise settled by the handlers of the worker's events.  Here *)
(*   pc[w]    is where worker w is: "idle" before the call, "running",     *)
(*            "posted" after its message, "errored" after its error event  *)
(*            and "exited" after its exit event,                           *)
(*   task[w]  is the state of the promise the call returned.               *)
(* A worker thread emits `error` for an uncaught exception and then exits  *)
(* with code 1; otherwise it exits with the code it ended with.            *)
(***************************************************************************)
ExitCodes == {0, 1}

\* resolve(result) and reject(err): only a pending promise changes
resolve(promise) == IF promise = "pending" THEN "resolved" ELSE promise
reject(promise) == IF promise = "pending" THEN "rejected" ELSE promise

\* worker.on("exit", (code) => { if (code !== 0) reject(...) })
onExit(promise, code) == IF code # 0 THEN reject(promise) ELSE promise

InitWorker ==
    /\ draft = DraftGroups
    /\ source = NoSource
    /\ EmptyBuilder
    /\ lastCall = NoCall
    /\ cursor = 0
    /\ passQueue = <<>>
    /\ tree = NoTree
    /\ generated = NotGenerated
    /\ writes = NoWrites
    /\ pc = [w \in 1..MaxWorkers |-> "idle"]
    /\ task = [w \in 1..MaxWorkers |-> "none"]

\* processSourceThread(data): new Promise, new Worker, the three handlers
ProcessSourceThread(w) ==
    /\ pc[w] = "idle"
    /\ pc' = [pc EXCEPT ![w] = "running"]
    /\ task' = [task EXCEPT ![w] = "pending"]
    /\ UNCHANGED <<draft, source, builderVars, lastCall, cursor, passQueue, tree, generated,
                   writes>>

\* worker.on("message", (result) => resolve(result))
WorkerMessage(w) ==
    /\ pc[w] = "running"
    /\ pc' = [pc EXCEPT ![w] = "posted"]
    /\ task' = [task EXCEPT ![w] = resolve(@)]
    /\ UNCHANGED <<draft, source, builderVars, lastCall, cursor, passQueue, tree, generated,
                   writes>>

\* worker.on("error", (err) => reject(err))
WorkerError(w) ==
    /\ pc[w] \in {"running", "posted"}
    /\ pc' = [pc EXCEPT ![w] = "errored"]
    /\ task' = [task EXCEPT ![w] = reject(@)]
    /\ UNCHANGED <<draft, source, builderVars, lastCall, cursor, passQueue, tree, generated,
                   writes>>

\* worker.on("exit", ...): after an error event the code is 1
WorkerExit(w) ==
    \E code \in ExitCodes :
        /\ pc[w] \in {"running", "posted", "errored"}
        /\ pc[w] = "errored" => code = 1
        /\ pc' = [pc EXCEPT ![w] = "exited"]
        /\ task' = [task EXCEPT ![w] = onExit(@, code)]
        /\ lastCall' = [op |-> "exit", worker |-> w, code |-> code]
        /\ UNCHANGED <<draft, source, builderVars, cursor, passQueue, tree, generated, writes>>

NextWorker ==
    \E w \in 1..MaxWorkers :
        \/ ProcessSourceThread(w)
        \/ WorkerMessage(w)
        \/ WorkerError(w)
        \/ WorkerExit(w)

SpecWorker == InitWorker /\ [][NextWorker]_vars

\* every worker thread ends and the event loop delivers its events
SpecWorkerFair == SpecWorker /\ WF_vars(NextWorker)

(***************************************************************************)
(* SpecFunctions: any sequence of getFunction calls on one builder.        *)
(* DraftGroups has no forceCreate parameter: it always takes the default.  *)
(***************************************************************************)
InitFunctions ==
    /\ draft \in Drafts
    /\ source = NoSource
    /\ EmptyBuilder
    /\ lastCall = NoCall
    /\ pc = "builder"
    /\ JobIdle

GetFunctionCall ==
    \E name \in FunctionNames, root \in RootIds, forceCreate \in BOOLEAN :
        /\ pc = "builder"
        /\ Len(functions) < MaxFunctions
        /\ draft = DraftGroups => ~forceCreate
        /\ LET r == getFunction(functions, name, root, forceCreate)
           IN  /\ functions' = r.functions
               /\ lastCall' = [op |-> "getFunction", name |-> name, forceCreate |-> forceCreate,
                               before |-> functions, index |-> r.index]
        /\ UNCHANGED <<draft, source, variables, styleImports, componentImports,
                       manipulations, jobVars>>

NextFunctions == GetFunctionCall

SpecFunctions == InitFunctions /\ [][NextFunctions]_vars

(***************************************************************************)
(* SpecGroups: any sequence of createGroup calls on one StyleFunction      *)
(* (DraftGroups; DraftUnique has no groups).                               *)
(***************************************************************************)
InitGroups ==
    /\ draft = DraftGroups
    /\ source = NoSource
    /\ functions = <<newFunction("CardStyles", 1)>>
    /\ variables = <<>>
    /\ styleImports = <<>>
    /\ componentImports = <<>>
    /\ manipulations = <<>>
    /\ lastCall = NoCall
    /\ pc = "builder"
    /\ JobIdle

CreateGroupCall ==
    \E originalName \in GroupLabels :
        /\ pc = "builder"
        /\ Len(functions[1].groups) < MaxGroups
        /\ LET r == createGroup(functions[1].groups, originalName)
           IN  /\ functions' = [functions EXCEPT ![1].groups = r.groups]
               /\ lastCall' = [op |-> "createGroup", name |-> originalName,
                               before |-> functions[1].groups, index |-> r.index]
        /\ UNCHANGED <<draft, source, variables, styleImports, componentImports,
                       manipulations, jobVars>>

NextGroups == CreateGroupCall

SpecGroups == InitGroups /\ [][NextGroups]_vars

(***************************************************************************)
(* SpecAnalyze: the analysis of one markup element of Card whose className *)
(* and style attributes hold up to MaxIdents identifiers between them.     *)
(***************************************************************************)
AnalyzeElementOf(ids, split, both, other) ==
    [elems |-> <<Element(<<1>>, <<>>,
                         [className |-> Attribute(TRUE, [i \in 1..split |-> ids[i]]),
                          style |-> IF split = Len(ids) /\ ~both
                                    THEN NoAttribute
                                    ELSE Attribute(TRUE, [i \in 1..(Len(ids) - split) |->
                                                             ids[split + i]]),
                          classNames |-> NoAttribute])>>,
     otherRefs |-> other]

AnalyzeSources ==
    UNION {{AnalyzeElementOf(ids, split, both, other) :
               split \in 0..Len(ids), both \in BOOLEAN, other \in SUBSET {"variants"}} :
           ids \in SeqsUpTo(Occurrences, MaxIdents)}

\* one element inside two nested function-like declarations, nearest first:
\* 3 is an anonymous callback such as the argument of items.map
NestedSources ==
    {[elems |-> <<Element(enclosing, <<>>, [NoStyleAttributes EXCEPT !.className = Lit])>>,
      otherRefs |-> {}] :
        enclosing \in {<<2, 1>>, <<3, 1>>, <<1, 2>>, <<3, 2>>}}

\* the elements of one component in document order, in either form, with or
\* without a literal className
ScannedElements ==
    {Element(<<1>>, <<>>, attrs) : attrs \in {NoStyleAttributes, [NoStyleAttributes EXCEPT !.className = Lit]}}
    \cup {OpeningElement(<<1>>, <<>>, attrs) : attrs \in {NoStyleAttributes, [NoStyleAttributes EXCEPT !.className = Lit]}}

ScannedSources ==
    {[elems |-> elems, otherRefs |-> {}] :
        elems \in UNION {[1..n -> ScannedElements] : n \in 2..MaxElems}}

\* one element below two markup ancestors, listed as getAncestors() does,
\* nearest first: <ul><li><a className="x" /></li></ul>
AncestorSources ==
    {[elems |-> <<Element(<<1>>, ancestors, [NoStyleAttributes EXCEPT !.className = Lit])>>,
      otherRefs |-> {}] :
        ancestors \in {<<"li", "ul">>, <<"div", "ul">>, <<"div", "Provider">>}}

\* an element written inside the classNames value of another one:
\* <List classNames={{ row: own, icon: <Icon className={inner} /> }} />
AttributeInAttribute ==
    {[elems |-> <<Element(<<1>>, <<>>,
                          [NoStyleAttributes EXCEPT !.classNames = Attribute(TRUE, own)]),
                  NestedElement(<<1>>, <<>>,
                                [NoStyleAttributes EXCEPT !.className = Attribute(TRUE, inner)],
                                1, "classNames")>>,
      otherRefs |-> other] :
        own \in {<<>>, <<[text |-> "variants", access |-> FALSE]>>},
        inner \in {<<>>, <<[text |-> "variants", access |-> FALSE]>>},
        other \in SUBSET {"variants"}}

InitAnalyze ==
    /\ draft \in Drafts
    /\ source \in AnalyzeSources \cup NestedSources \cup ScannedSources \cup AncestorSources
                    \cup AttributeInAttribute
    /\ EmptyBuilder
    /\ lastCall = NoCall
    /\ pc = "analyze"
    /\ JobIdle

NextAnalyze == AnalyzeElement

SpecAnalyze == InitAnalyze /\ [][NextAnalyze]_vars

(***************************************************************************)
(* toValidFunctionName.  A string is a sequence of one-character strings.  *)
(* The repository holds two copies: utils/toValidFunctionName.ts and the   *)
(* one at the end of part_004, which differ in how a word is re-cased.     *)
(* In SpecSanitize                                                         *)
(*   draft     is the copy that is called,                                 *)
(*   source    is the input string,                                        *)
(*   lastCall  holds the call's result,                                    *)
(*   pc        is "call", "returned" or "threw".                           *)
(***************************************************************************)
UtilsCopy == "toValidFunctionName.ts"
Copies == {UtilsCopy, DraftUnique}

LowerCase == <<"a", "b", "c", "d", "e", "f", "g", "h", "i", "j", "k", "l", "m", "n", "o", "p", "q", "r", "s", "t", "u", "v", "w", "x", "y", "z">>
UpperCase == <<"A", "B", "C", "D", "E", "F", "G", "H", "I", "J", "K", "L", "M", "N", "O", "P", "Q", "R", "S", "T", "U", "V", "W", "X", "Y", "Z">>
Digits == {"0", "1", "2", "3", "4", "5", "6", "7", "8", "9"}
Letters == Range(LowerCase) \cup Range(UpperCase)

\* the characters \s matches, of those the model uses
WhiteSpace == {" "}

IndexOf(s, c) == CHOOSE i \in 1..Len(s) : s[i] = c
toUpperCase(c) == IF c \in Range(LowerCase) THEN UpperCase[IndexOf(LowerCase, c)] ELSE c
toLowerCase(c) == IF c \in Range(UpperCase) THEN LowerCase[IndexOf(UpperCase, c)] ELSE c

RECURSIVE trimStart(_)
trimStart(s) == IF s # <<>> /\ Head(s) \in WhiteSpace THEN trimStart(Tail(s)) ELSE s

trim(s) == Reverse(trimStart(Reverse(trimStart(s))))

\* .replace(/[^a-zA-Z0-9_$]/g, " ")
replaceInvalid(s) ==
    [i \in 1..Len(s) |-> IF s[i] \in Letters \cup Digits \cup {"_", "$"} THEN s[i] ELSE " "]

\* .split(/\s+/): a separator at either end yields an empty word there
RECURSIVE split(_, _)
split(s, word) ==
    IF s = <<>> THEN <<word>>
    ELSE IF Head(s) \in WhiteSpace THEN <<word>> \o split(trimStart(s), <<>>)
    ELSE split(Tail(s), Append(word, Head(s)))

\* the callback of .map: utils lower-cases the first word and the tail of the
\* others, part_004 upper-cases the first character of every word
recase(copy, word, index) ==
    IF copy = UtilsCopy
    THEN [i \in 1..Len(word) |->
             IF index # 0 /\ i = 1 THEN toUpperCase(word[i]) ELSE toLowerCase(word[i])]
    ELSE [i \in 1..Len(word) |-> IF i = 1 THEN toUpperCase(word[i]) ELSE word[i]]

\* .map(...).join("")
RECURSIVE mapJoin(_, _, _)
mapJoin(copy, words, index) ==
    IF words = <<>> THEN <<>>
    ELSE recase(copy, words[1], index) \o mapJoin(copy, Tail(words), index + 1)

\* the value of `sanitized` after the conversion to camel case
camelCased(copy, input) == mapJoin(copy, split(replaceInvalid(trim(input)), <<>>), 0)

reservedWords ==
    {<<"b", "r", "e", "a", "k">>,
     <<"c", "a", "s", "e">>,
     <<"c", "a", "t", "c", "h">>,
     <<"c", "l", "a", "s", "s">>,
     <<"c", "o", "n", "s", "t">>,
     <<"c", "o", "n", "t", "i", "n", "u", "e">>,
     <<"d", "e", "b", "u", "g", "g", "e", "r">>,
     <<"d", "e", "f", "a", "u", "l", "t">>,
     <<"d", "e", "l", "e", "t", "e">>,
     <<"d", "o">>,
     <<"e", "l", "s", "e">>,
     <<"e", "n", "u", "m">>,
     <<"e", "x", "p", "o", "r", "t">>,
     <<"e", "x", "t", "e", "n", "d", "s">>,
     <<"f", "a", "l", "s", "e">>,
     <<"f", "i", "n", "a", "l", "l", "y">>,
     <<"f", "o", "r">>,
     <<"f", "u", "n", "c", "t", "i", "o", "n">>,
     <<"i", "f">>,
     <<"i", "m", "p", "o", "r", "t">>,
     <<"i", "n">>,
     <<"i", "n", "s", "t", "a", "n", "c", "e", "o", "f">>,
     <<"n", "e", "w">>,
     <<"n", "u", "l", "l">>,
     <<"r", "e", "t", "u", "r", "n">>,
     <<"s", "u", "p", "e", "r">>,
     <<"s", "w", "i", "t", "c", "h">>,
     <<"t", "h", "i", "s">>,
     <<"t", "h", "r", "o", "w">>,
     <<"t", "r", "u", "e">>,
     <<"t", "r", "y">>,
     <<"t", "y", "p", "e", "o", "f">>,
     <<"v", "a", "r">>,
     <<"v", "o", "i", "d">>,
     <<"w", "h", "i", "l", "e">>,
     <<"w", "i", "t", "h">>,
     <<"y", "i", "e", "l", "d">>}

\* a variant that accepts every first character
validStartAny(sanitized) == TRUE

\* /^[a-zA-Z_$]/.test(sanitized)
validStart(sanitized) == sanitized # <<>> /\ sanitized[1] \in Letters \cup {"_", "$"}

toValidFunctionName(copy, input) ==
    IF trim(input) = <<>>
    THEN [ok |-> FALSE, value |-> <<>>]
    ELSE LET sanitized == camelCased(copy, input)
             prefixed == IF validStart(sanitized) THEN sanitized ELSE <<"_">> \o sanitized
         IN  [ok |-> TRUE,
              value |-> IF prefixed \in reservedWords
                        THEN prefixed \o <<"_", "f", "n">>
                        ELSE prefixed]

MaxChars == 3
SampleChars == {"d", "o", "D", "2", "-", " ", "_"}
ForEachStyling == <<"2", "f", "o", "r", "-", "e", "a", "c", "h", " ", "S", "t", "y", "l", "i", "n", "g">>
Class == <<"c", "l", "a", "s", "s">>
SampleInputs ==
    UNION {[1..n -> SampleChars] : n \in 0..MaxChars}
        \cup {ForEachStyling, Class, <<"i", "f">>, <<"N", "e", "w">>}

InitSanitize ==
    /\ draft \in Copies
    /\ source \in SampleInputs
    /\ lastCall = NoCall
    /\ pc = "call"
    /\ EmptyBuilder
    /\ JobIdle

ToValidFunctionName ==
    /\ pc = "call"
    /\ lastCall' = [op |-> "toValidFunctionName",
                    result |-> toValidFunctionName(draft, source)]
    /\ pc' = IF trim(source) = <<>> THEN "threw" ELSE "returned"
    /\ UNCHANGED <<draft, source, builderVars, cursor, passQueue, tree, generated, writes,
                   task>>

NextSanitize == ToValidFunctionName

SpecSanitize == InitSanitize /\ [][NextSanitize]_vars

(***************************************************************************)
(* getTypeInfo and the interface property written for a parameter          *)
(* (part_004).  A type is a record: a union has `members`, any other type  *)
(* has its text, whether it is `undefined`, whether the text holds         *)
(* "import(", and the name and module of its symbol (Undefined if none).   *)
(* The compiler flattens unions, so a member is never a union.             *)
(* In SpecTypes                                                            *)
(*   source     is the type of the value a parameter is made from,         *)
(*   lastCall   holds the TypeInfo that getTypeInfo returned,              *)
(*   generated  holds the property written to the Props interface,         *)
(*   pc         is "call", "resolved" or "written".                        *)
(***************************************************************************)
PlainType(text) ==
    [union |-> FALSE, text |-> text, isUndefined |-> text = "undefined",
     importText |-> FALSE, symbol |-> Undefined, module |-> Undefined]

\* a type whose text is import("<module>").<symbol>
ImportedType(symbol, module) ==
    [union |-> FALSE, text |-> "import(\"" \o module \o "\")." \o symbol,
     isUndefined |-> FALSE, importText |-> TRUE, symbol |-> symbol, module |-> module]

UnionType(members) == [union |-> TRUE, members |-> members]

\* the reducer of the union branch, with the mutant that appends
reduceTypesOldFirst(p, c) ==
    [imports |-> p.imports \o c.imports,
     types |-> p.types \o c.types,
     isOptional |-> p.isOptional \/ c.isOptional]

reduceTypes(p, c) ==
    [imports |-> p.imports \o c.imports,
     types |-> c.types \o p.types,
     isOptional |-> p.isOptional \/ c.isOptional]

\* getTypeInfo of a type that is not a union: the text, or the symbol's name
\* and an import of it when the text holds "import("
getMemberTypeInfo(type) ==
    IF type.importText /\ type.symbol # Undefined
    THEN [types |-> <<type.symbol>>,
          imports |-> IF type.module # Undefined
                      THEN <<[from |-> type.module, name |-> type.symbol]>>
                      ELSE <<>>,
          isOptional |-> type.isUndefined]
    ELSE [types |-> <<type.text>>, imports |-> <<>>, isOptional |-> type.isUndefined]

\* .map(getTypeInfo).reduce(..., p) over the members from index i on
RECURSIVE reduceMembers(_, _, _)
reduceMembers(members, i, p) ==
    IF i > Len(members) THEN p
    ELSE reduceMembers(members, i + 1, reduceTypes(p, getMemberTypeInfo(members[i])))

getTypeInfo(type) ==
    IF type.union
    THEN reduceMembers(type.members, 1,
                       [types |-> <<>>, imports |-> <<>>, isOptional |-> FALSE])
    ELSE getMemberTypeInfo(type)

getTypeString(typeInfo) == join(distinct(typeInfo.types), " | ")

\* the property createStyleObject writes for a parameter: `name?: type;`
interfaceProperty(name, typeInfo) ==
    [name |-> name \o (IF typeInfo.isOptional THEN "?" ELSE ""),
     type |-> getTypeString(typeInfo)]

MaxMembers == 3
MemberTypes ==
    {PlainType("string"), PlainType("number"), PlainType("undefined"),
     ImportedType("Size", "@/lib/size")}

TypeInputs ==
    MemberTypes
        \cup {UnionType(members) :
                members \in UNION {[1..n -> MemberTypes] : n \in 2..MaxMembers}}

InitTypes ==
    /\ draft = DraftUnique
    /\ source \in TypeInputs
    /\ lastCall = NoCall
    /\ pc = "call"
    /\ EmptyBuilder
    /\ cursor = 0
    /\ passQueue = <<>>
    /\ tree = NoTree
    /\ generated = NotGenerated
    /\ writes = NoWrites
    /\ task = "none"

GetTypeInfo ==
    /\ pc = "call"
    /\ lastCall' = [op |-> "getTypeInfo", result |-> getTypeInfo(source)]
    /\ pc' = "resolved"
    /\ UNCHANGED <<draft, source, builderVars, cursor, passQueue, tree, generated, writes,
                   task>>

WriteInterfaceProperty ==
    /\ pc = "resolved"
    /\ generated' = [done |-> TRUE, property |-> interfaceProperty("value", lastCall.result)]
    /\ pc' = "written"
    /\ UNCHANGED <<draft, source, builderVars, lastCall, cursor, passQueue, tree, writes,
                   task>>

NextTypes == GetTypeInfo \/ WriteInterfaceProperty

SpecTypes == InitTypes /\ [][NextTypes]_vars


(***************************************************************************)
(* Properties.                                                             *)
(***************************************************************************)
Distinct(names) == \A i, j \in 1..Len(names) : i # j => names[i] # names[j]

\* name followed by the smallest k >= 2 for which the result is not in `used`
IsSmallestSuffix(n, name, used, most) ==
    \E k \in 2..most :
        /\ n = name \o ToString(k)
        /\ n \notin used
        /\ \A j \in 2..(k - 1) : name \o ToString(j) \in used

\* C4: at every point of the analysis, no StyleFunction has two entries of
\* its parameters list with the same sourceName.
C4_ParametersUniqueBySourceName ==
    \A f \in 1..Len(functions) :
        Distinct([i \in 1..Len(functions[f].parameters) |->
                     functions[f].parameters[i].sourceName])

\* C5: after a createGroup call the group names of the StyleFunction are
\* pairwise distinct and the call added one group; if the element's path is
\* the name of an existing group, the new group is named by the path followed
\* by the smallest k >= 2 giving an unused name, otherwise by the path.
C5_GroupNamesDistinctSmallestSuffix ==
    lastCall.op = "createGroup" =>
        LET groups == functions[1].groups
            before == lastCall.before
            created == groups[lastCall.index].name
        IN  /\ Distinct([i \in 1..Len(groups) |-> groups[i].name])
            /\ Len(groups) = Len(before) + 1
            /\ lastCall.index = Len(groups)
            /\ SubSeq(groups, 1, Len(before)) = before
            /\ IF lastCall.name \in NamesOf(before)
               THEN IsSmallestSuffix(created, lastCall.name, NamesOf(before), Len(before) + 2)
               ELSE created = lastCall.name

\* a createGroup call whose path and whose path followed by 2 are both taken
C5_Witness ==
    /\ lastCall.op = "createGroup"
    /\ lastCall.name \in NamesOf(lastCall.before)
    /\ lastCall.name \o "2" \in NamesOf(lastCall.before)
    /\ Len(functions[1].groups) = Len(lastCall.before) + 1

\* C6: getFunction without forceCreate returns the StyleFunction named `name`
\* and leaves the list unchanged if there is one; with forceCreate it always
\* appends a new StyleFunction, named `name` if that is unused and otherwise
\* `name` followed by the smallest k >= 2 giving an unused name; the names of
\* the list are pairwise distinct after every call.
C6_GetFunctionForceUnique ==
    lastCall.op = "getFunction" =>
        LET before == lastCall.before
            returned == functions[lastCall.index]
        IN  /\ Distinct([i \in 1..Len(functions) |-> functions[i].name])
            /\ (~lastCall.forceCreate /\ lastCall.name \in NamesOf(before)) =>
                   /\ functions = before
                   /\ returned.name = lastCall.name
            /\ lastCall.forceCreate =>
                   /\ Len(functions) = Len(before) + 1
                   /\ lastCall.index = Len(functions)
                   /\ SubSeq(functions, 1, Len(before)) = before
                   /\ returned.parameters = <<>>
                   /\ IF lastCall.name \in NamesOf(before)
                      THEN IsSmallestSuffix(returned.name, lastCall.name, NamesOf(before),
                                            Len(before) + 2)
                      ELSE returned.name = lastCall.name

\* a forced call whose name and whose name followed by 2 are both taken
C6_Witness ==
    /\ lastCall.op = "getFunction"
    /\ lastCall.forceCreate
    /\ lastCall.name \in NamesOf(lastCall.before)
    /\ lastCall.name \o "2" \in NamesOf(lastCall.before)
    /\ Len(functions) = Len(lastCall.before) + 1

\* the manipulations queued so far that carry the pass tag `pass`
Tagged(pass) == {i \in 1..Len(manipulations) : manipulations[i].pass = pass}

WritesIssued == writes.copy # "none"

\* C1: the phases of a job run in order: every BeforeStyleGeneration action
\* has run (once) when createStyleObject has been called and none runs later;
\* no AfterStyleGeneration action has run until createStyleObject returned;
\* every AfterStyleGeneration action has run when removeUnusedImports has been
\* called; and the writes are issued only after removeUnusedImports returned.
C1_PhasesInOrder ==
    /\ generated.done => \A i \in Tagged(BeforeStyleGeneration) : manipulations[i].runs = 1
    /\ ~generated.done => \A i \in Tagged(AfterStyleGeneration) : manipulations[i].runs = 0
    /\ tree.pruned => /\ generated.done
                      /\ \A i \in Tagged(AfterStyleGeneration) : manipulations[i].runs = 1
    /\ WritesIssued => tree.pruned

\* a job with actions in both passes that went through all phases
C1_Witness ==
    /\ WritesIssued
    /\ tree.pruned
    /\ generated.done
    /\ \E i \in Tagged(BeforeStyleGeneration) : manipulations[i].runs = 1
    /\ Cardinality(Tagged(AfterStyleGeneration)) >= 3

\* C2: no manipulation is executed twice, and when the writes are issued every
\* manipulation of the job has been executed exactly once, the component-import
\* insertion queued after the first pass included.
C2_EachManipulationOnce ==
    /\ \A i \in 1..Len(manipulations) : manipulations[i].runs <= 1
    /\ WritesIssued =>
         /\ \A i \in 1..Len(manipulations) : manipulations[i].runs = 1
         /\ \E i \in 1..Len(manipulations) : manipulations[i].kind = "addComponentImports"

\* the writes are issued after manipulations of both passes and the late one
C2_Witness ==
    /\ WritesIssued
    /\ \E i \in Tagged(BeforeStyleGeneration) : manipulations[i].kind = "replaceWithText"
    /\ \E i \in Tagged(AfterStyleGeneration) : manipulations[i].kind = "removeAttribute"
    /\ manipulations[Len(manipulations)].kind = "addComponentImports"
    /\ manipulations[Len(manipulations)].runs = 1

\* C3: the generator reads the text of an extracted attribute while the
\* attribute is still in the tree: no read finds the attribute removed, an
\* attribute is removed only after the generator ran and, if it has a value,
\* after its text was read; and the tree is as parsed during the analysis loop.
C3_TextReadBeforeRemoval ==
    /\ generated.done => generated.staleReads = {}
    /\ \A e \in 1..Len(tree.attrs) : \A a \in Range(styleAttributes) :
         tree.attrs[e][a] = "removed" =>
            /\ generated.done
            /\ source.elems[e].attrs[a].init => [elem |-> e, attr |-> a] \in generated.reads
    /\ pc = "analyze" => tree = InitialTree(source)

\* an attribute with a value was read by the generator and removed afterwards
C3_Witness ==
    /\ generated.done
    /\ \E r \in generated.reads :
         /\ tree.attrs[r.elem][r.attr] = "removed"
         /\ source.elems[r.elem].attrs[r.attr].idents # <<>>

\* C9: a failure to name the Root of one element abandons that element only:
\* when processSource has ended, every element whose Root can be named was
\* analysed, the generator and both passes ran, and the writes were issued.
C9_NamingFailureSkipsElementOnly ==
    (pc \in {"threw", "returned"} /\ analysisThrows(source)) =>
        /\ cursor = Len(source.elems)
        /\ generated.done
        /\ WritesIssued

\* what removeUnusedImports left of the declaration importing from `module`
LeftOf(module) == {tree.imports[i] : i \in {j \in 1..Len(tree.imports) :
                                              tree.imports[j].module = module}}

\* C7: of an import declaration made of named specifiers, the pruner removes
\* the whole declaration if no specifier is referenced in the file outside
\* the import statement, and otherwise keeps the declaration with exactly
\* the specifiers that are referenced.
C7_NamedSpecifiersPruned ==
    lastCall.op = "removeUnusedImports" =>
        \A i \in 1..Len(lastCall.before) :
            LET decl == lastCall.before[i]
                referenced(n) == source.uses[n] > 0
            IN  (/\ decl.named # <<>>
                 /\ decl.defaultImport = Undefined
                 /\ decl.namespaceImport = Undefined) =>
                    IF \A k \in 1..Len(decl.named) : ~referenced(decl.named[k])
                    THEN LeftOf(decl.module) = {}
                    ELSE LeftOf(decl.module) =
                            {[decl EXCEPT !.named = SelectSeq(@, referenced)]}

\* C8: a declaration whose only binding is a default import or a namespace
\* import that is referenced nowhere else in the file is removed.
C8_OwnImportNodeExcluded ==
    lastCall.op = "removeUnusedImports" =>
        \A i \in 1..Len(lastCall.before) :
            LET decl == lastCall.before[i]
                only == {decl.defaultImport, decl.namespaceImport} \ {Undefined}
            IN  (/\ decl.named = <<>>
                 /\ Cardinality(only) = 1
                 /\ \A n \in only : source.uses[n] = 0) =>
                    LeftOf(decl.module) = {}

\* C10: the failure of one component does not keep the coordinator from the
\* others: when the action has settled, processSource has been called, and
\* has returned its task, for every component whose own analysis does not
\* throw.
C10_FailureDoesNotBlockOthers ==
    pc \in {"rejected", "resolved"} =>
        \A c \in 1..Len(source) :
            ~analysisThrows(source[c]) => task[c] # "none"

\* C11: the two writes of a component are issued together, before the task
\* awaits either; the task resolves only when both writes succeeded and is
\* rejected as soon as one write failed, whatever became of the other.
C11_WritesAwaitedJointly ==
    /\ (writes.copy = "none") <=> (writes.style = "none")
    /\ task = "resolved" => writes.copy = "saved" /\ writes.style = "saved"
    /\ (WritesIssued /\ "failed" \in {writes.copy, writes.style}) => task = "rejected"
    /\ (WritesIssued /\ task = "rejected") => "failed" \in {writes.copy, writes.style}
    /\ (writes.copy = "saved" /\ writes.style = "saved") => task = "resolved"

\* the task is rejected although one of the two files was written
C11_Witness ==
    /\ task = "rejected"
    /\ writes.copy = "saved"
    /\ writes.style = "failed"

\* C12: the promise returned by processSourceThread eventually settles,
\* whatever events the worker emits.
C12_WorkerPromiseSettles ==
    \A w \in 1..MaxWorkers : (task[w] = "pending") ~> (task[w] \in {"resolved", "rejected"})

\* C13: once the call of processSource for a component has begun, every
\* statement that touches the trees of the components called before it has
\* run: their calls have nothing left but the pending writes.
C13_TreeMutationsDoNotInterleave ==
    \A c \in 1..Len(source) : \A earlier \in 1..(c - 1) :
        tree[c] # <<>> => finished(draft, tree[earlier])

\* a component is being analysed while the writes of the one before are pending
C13_Witness ==
    /\ Len(source) >= 2
    /\ tree[2] = <<"called">>
    /\ "removeUnusedImports" \in Range(tree[1])
    /\ writes[1] = [copy |-> "pending", style |-> "pending"]

\* the second pass of the job has run to its end
SecondPassDone == pc \in {"prune", "copy"} \/ WritesIssued

\* the elements with an allow-listed attribute that has an initializer
Extracted == {e \in 1..Len(source.elems) :
                 \E a \in Range(styleAttributes) : source.elems[e].attrs[a].init}

\* the keys under which the properties captured from element e are stored:
\* group names in DraftGroups, StyleFunction names in DraftUnique
OwnKeys(e) ==
    LET holds(properties) == \E k \in 1..Len(properties) : properties[k].elem = e
    IN  IF draft = DraftGroups
        THEN UNION {{functions[f].groups[g].name :
                        g \in {h \in 1..Len(functions[f].groups) :
                                  holds(functions[f].groups[h].properties)}} :
                    f \in 1..Len(functions)}
        ELSE {functions[f].name :
                 f \in {h \in 1..Len(functions) : holds(functions[h].properties)}}

\* C14: after the second pass every element that had an allow-listed
\* attribute with an initializer has exactly one spread, of its own key, as
\* its first attribute, and none of its allow-listed attributes.
C14_SpreadFirstAttributesGone ==
    SecondPassDone =>
        \A e \in Extracted :
            /\ tree.order[e][1] = SpreadAttribute
            /\ \A i \in 2..Len(tree.order[e]) : tree.order[e][i] = OtherAttribute
            /\ Len(tree.spreads[e]) = 1
            /\ OwnKeys(e) = {tree.spreads[e][1].name}

\* an element with two allow-listed attributes after the second pass
C14_Witness ==
    /\ SecondPassDone
    /\ \E e \in Extracted :
         /\ source.elems[e].attrs["className"].init
         /\ source.elems[e].attrs["style"].init
         /\ tree.order[e] = <<SpreadAttribute, OtherAttribute>>

\* C15: every Root that owns an element with a styles[...] spread gets
\* exactly one `const styles = styling.get<Name>(...)`: inserted into its
\* body if that is a block, and by conversion of the body into a block if it
\* is an expression, parenthesized or not.
C15_AccessorInjectedOncePerRoot ==
    (SecondPassDone /\ draft = DraftGroups) =>
        \A e \in 1..Len(source.elems) :
            tree.spreads[e] # <<>> =>
                LET root == getRootFunction(source.elems[e]).rootFunction
                    calls == {i \in 1..Len(tree.injected) : tree.injected[i].root = root}
                IN  /\ Cardinality(calls) = 1
                    /\ \A i \in calls :
                         tree.injected[i].mode =
                            IF FunctionKind(root) = "FunctionDeclaration"
                               \/ ArrowBody(root) = "Block"
                            THEN "insertStatements"
                            ELSE "convertToBlock"

\* no element of the component carries an allow-listed attribute
NoStyleAttribute ==
    \A e \in 1..Len(source.elems) : \A a \in Range(styleAttributes) :
        ~source.elems[e].attrs[a].present

\* the elements, statements and accessor calls of the tree are as parsed
MarkupUntouched ==
    /\ tree.attrs = InitialTree(source).attrs
    /\ tree.order = InitialTree(source).order
    /\ \A e \in 1..Len(tree.spreads) : tree.spreads[e] = <<>>
    /\ tree.injected = <<>>
    /\ tree.removedStatements = {}
    /\ tree.rewrites = <<>>

\* what a further run does to the imports of a tree without allow-listed
\* attributes: the import of `styling` is added, then the pruner runs
ImportsAfterRerun ==
    LET added == addImportsToSourceFile(<<[name |-> "styling", from |-> StylingModule]>>,
                                        tree.imports)
        names == BindingNames(added)
    IN  removeUnusedImports(draft, added,
                            [n \in names |-> usesInTree(source, tree, n)],
                            [n \in names |-> 0])

\* C16 as stated: a run over a tree without allow-listed attributes leaves
\* the tree, its import declarations included, as it was.
C16_NoAttributeNoChange ==
    (tree.pruned /\ NoStyleAttribute) =>
        /\ MarkupUntouched
        /\ tree.imports = SourceImports

\* C16, amended: such a run leaves the markup, the statements and the Roots
\* untouched and adds no import; the only change is that the pruner drops
\* the import specifiers that have no reference in the file, and a further
\* run over the result changes nothing.
C16_NoAttributeOnlyPrunes ==
    (tree.pruned /\ NoStyleAttribute) =>
        /\ MarkupUntouched
        /\ \A i \in 1..Len(tree.imports) : tree.imports[i].module # StylingModule
        /\ BindingNames(tree.imports) =
              {n \in BindingNames(SourceImports) : usesInTree(source, tree, n) > 0}
        /\ ImportsAfterRerun = tree.imports

\* a run over a component with an element, no allow-listed attribute and a
\* referenced import has come to its end
C16_Witness ==
    /\ tree.pruned
    /\ NoStyleAttribute
    /\ Len(source.elems) = MaxElems
    /\ functions # <<>>
    /\ tree.imports # <<>>

\* C17: the Root of an element is the nearest enclosing function-like
\* declaration and the StyleFunction the element's properties go to is named
\* after it, when that function has a name of its own or of its variable.
C17_RootIsNearestFunction ==
    \A i \in 1..Len(manipulations) :
        LET m == manipulations[i]
            nearest == source.elems[m.elem].enclosing[1]
        IN  (m.kind = "captureProperty" /\ DeclaredName(nearest) # Undefined) =>
                /\ functions[m.target.fn].rootFunction = nearest
                /\ draft = DraftGroups =>
                      functions[m.target.fn].name = DeclaredName(nearest) \o "Styles"

\* C18: elements are analysed in document pre-order whatever their form: the
\* properties captured so far come from elements at non-decreasing positions.
C18_ProcessedInDocumentOrder ==
    \A i, j \in 1..Len(manipulations) :
        (/\ i < j
         /\ manipulations[i].kind = "captureProperty"
         /\ manipulations[j].kind = "captureProperty") =>
            manipulations[i].elem <= manipulations[j].elem

\* C19: the group key of an element lists the labels of its markup ancestors
\* from the outermost down to the nearest, joined by the draft's delimiter.
\* With groups the key is the name of the element's group; without groups it
\* is the part of the function name between the Root name and "Styling".
C19_GroupKeyRootToElement ==
    \A i \in 1..Len(manipulations) :
        LET m == manipulations[i]
            elem == source.elems[m.elem]
            rootToElement == Reverse(elem.ancestors)
        IN  (m.kind = "captureProperty" /\ Len(source.elems) = 1) =>
                IF draft = DraftGroups
                THEN functions[m.target.fn].groups[m.target.group].name
                        = join(rootToElement, ":")
                ELSE functions[m.target.fn].name
                        = camelCase(<<DeclaredName(elem.enclosing[Len(elem.enclosing)])>>
                                        \o rootToElement \o <<"Styling">>)

\* C20: toValidFunctionName("2for-each Styling") starts with "_" and
\* toValidFunctionName("class") is "class_fn"; in general a camel-cased string
\* that does not start with a letter, "_" or "$" is returned with the prefix
\* "_", and one that is a reserved word with the suffix "_fn".
C20_SanitizedIdentifier ==
    (pc = "returned") =>
        LET result == lastCall.result.value
            sanitized == camelCased(draft, source)
        IN  /\ source = ForEachStyling => result[1] = "_"
            /\ source = Class => result = Class \o <<"_", "f", "n">>
            /\ ~validStart(sanitized) => result = <<"_">> \o sanitized
            /\ sanitized \in reservedWords => result = sanitized \o <<"_", "f", "n">>

\* the alternatives of the members of a union, last member first
RECURSIVE NewToOld(_)
NewToOld(members) ==
    IF members = <<>> THEN <<>>
    ELSE NewToOld(Tail(members)) \o getTypeInfo(members[1]).types

\* C21: for a union, getTypeInfo returns the members' alternatives concatenated
\* new-to-old and isOptional exactly when a member is `undefined`; the property
\* written for `string | undefined` is optional and its type is the two
\* alternatives joined by " | ".
C21_UnionTypeInfo ==
    (pc \in {"resolved", "written"} /\ source.union) =>
        /\ lastCall.result.types = NewToOld(source.members)
        /\ lastCall.result.isOptional
              <=> \E i \in 1..Len(source.members) : source.members[i].isUndefined
        /\ (pc = "written"
              /\ Range(source.members) = {PlainType("string"), PlainType("undefined")}) =>
                /\ generated.property.name = "value?"
                /\ generated.property.type \in {"string | undefined", "undefined | string"}

C21_Witness ==
    /\ pc = "written"
    /\ source = UnionType(<<PlainType("string"), PlainType("undefined")>>)
    /\ generated.property = [name |-> "value?", type |-> "undefined | string"]

\* the statement removals queued so far: one per hoist, in the order of
\* style.variables
Hoists == SelectSeq(manipulations, LAMBDA m : m.kind = "removeStatement")

\* some reference to the variable lies outside the subtree of attribute a of
\* element e (and outside the declaring statement, which holds the declared
\* name only)
ReferencedOutside(text, e, a) ==
    \/ text \in source.otherRefs
    \/ \E e2 \in 1..Len(source.elems) : \E a2 \in Range(styleAttributes) :
          /\ e2 # e \/ a2 # a
          /\ source.elems[e2].inside # <<e, a>>
          /\ \E i \in 1..Len(source.elems[e2].attrs[a2].idents) :
                source.elems[e2].attrs[a2].idents[i].text = text

\* C22: a module-scope variable is hoisted with export = TRUE exactly when it
\* is referenced outside its declaring statement and the attribute analysed,
\* and an import of it into the original source is queued once per exported
\* hoist and never otherwise.
C22_ExportedIffReferencedOutside ==
    /\ Len(Hoists) = Len(variables)
    /\ \A k \in 1..Len(variables) :
          /\ variables[k].name = Hoists[k].target
          /\ variables[k].export
                <=> ReferencedOutside(Hoists[k].target, Hoists[k].elem, Hoists[k].attr)
    /\ \A text \in {variables[k].name : k \in 1..Len(variables)} :
          Cardinality({i \in 1..Len(componentImports) : componentImports[i].name = text})
              = Cardinality({k \in 1..Len(variables) :
                                variables[k].name = text /\ variables[k].export})
    /\ \A i \in 1..Len(componentImports) :
          \E k \in 1..Len(variables) :
              variables[k].name = componentImports[i].name /\ variables[k].export

\* a variable used in both attributes of an element and nowhere else is exported
C22_Witness ==
    /\ cursor = 1
    /\ source.otherRefs = {}
    /\ Len(variables) = 2
    /\ variables[1].export /\ variables[2].export
    /\ Len(componentImports) = 2

\* C23: what the call initializing a hoisted variable refers to is available in
\* the generated module: an imported binding is among the style imports and a
\* module-scope variable is among the hoisted variables.
C23_InitializerCallResolved ==
    \A k \in 1..Len(variables) :
        \A id \in Range(InitializerCallIdents(variables[k].name)) :
            /\ SymbolKind(id) = "ImportSpecifier" =>
                  \E i \in 1..Len(styleImports) : styleImports[i].name = id
            /\ SymbolKind(id) = "ModuleVariable" =>
                  \E j \in 1..Len(variables) : variables[j].name = id

\* C24: in the emitted accessor object the parameter clause of an accessor is
\* omitted exactly when its StyleFunction has no parameters; otherwise it
\* destructures every parameter name, typed by <Name>Props, and `= {}` is
\* written only if every parameter is optional.
C24_ParameterClause ==
    generated.done =>
        \A i \in 1..Len(generated.accessors) :
            LET f == generated.accessors[i]
                clause == generated.clauses[i]
                name(p) == IF p.destinationName # Undefined THEN p.destinationName
                           ELSE p.sourceName
            IN  /\ clause.omitted <=> Len(f.parameters) = 0
                /\ ~clause.omitted =>
                      /\ Range(clause.names) = {name(f.parameters[k]) :
                                                  k \in 1..Len(f.parameters)}
                      /\ Distinct(clause.names)
                      /\ clause.type = f.name \o "Props"
                /\ (~clause.omitted /\ clause.addDefault) =>
                      \A k \in 1..Len(f.parameters) : f.parameters[k].type.isOptional

\* C25: every entry recorded in style.variables for one module-scope variable
\* carries the same export flag, wherever the references to it are placed.
C25_ExportDecisionsAgree ==
    \A j, k \in 1..Len(variables) :
        variables[j].name = variables[k].name => variables[j].export = variables[k].export

\* C26: a module-scope variable is hoisted at most once: style.variables holds
\* no two entries for one declaration and at most one statement removal is
\* queued per declaring statement.
C26_HoistedAtMostOnce ==
    /\ Distinct([k \in 1..Len(variables) |-> variables[k].name])
    /\ Distinct([k \in 1..Len(Hoists) |-> Hoists[k].target])

\* the accessor call resolves: an accessor of that name is emitted and the keys
\* passed are the names its parameter clause destructures
CallResolves(call) ==
    \E i \in 1..Len(generated.accessors) :
        /\ generated.accessors[i].name = call.name
        /\ Range(call.keys) = Range(generated.clauses[i].names)

C28_SideEffectImportKept ==
    lastCall.op = "removeUnusedImports" =>
        \A i \in 1..Len(lastCall.before) :
            LET decl == lastCall.before[i]
                bindings == BindingNames(<<decl>>)
            IN  LeftOf(decl.module) = {} =>
                    /\ bindings # {}
                    /\ \A n \in bindings : source.uses[n] = 0

\* C29: attributes outside the allow-list are never removed or rewritten: each
\* element keeps its other attribute, every queued removal and every rewrite
\* is for className, style or classNames; an element without an allow-listed
\* attribute that has an initializer gets no spread.
C29_OnlyAllowListedTouched ==
    /\ \A e \in 1..Len(source.elems) :
          /\ Len(SelectSeq(tree.order[e], LAMBDA a : a = OtherAttribute)) = 1
          /\ e \notin Extracted =>
                /\ tree.spreads[e] = <<>>
                /\ SpreadAttribute \notin Range(tree.order[e])
    /\ \A i \in 1..Len(manipulations) :
          manipulations[i].kind \in {"removeAttribute", "replaceWithText"} =>
              manipulations[i].attr \in Range(styleAttributes)
    /\ \A i \in 1..Len(tree.rewrites) : tree.rewrites[i][2] \in Range(styleAttributes)

\* an element whose className has no initializer, after the second pass, next
\* to an element that got its spread
C29_Witness ==
    /\ SecondPassDone
    /\ \E e \in 1..Len(source.elems) :
          /\ e \notin Extracted
          /\ tree.attrs[e]["className"] = "removed"
          /\ tree.order[e] = <<OtherAttribute>>
    /\ \E e \in Extracted : tree.order[e] = <<SpreadAttribute, OtherAttribute>>

\* C30: for an input with a character that is not white space,
\* toValidFunctionName returns a non-empty string matching
\* [A-Za-z_$][A-Za-z0-9_$]* that is not a reserved word; for an empty or
\* white-space-only input it throws.
C30_ValidIdentifierOrThrows ==
    LET blank == \A i \in 1..Len(source) : source[i] \in WhiteSpace
        result == lastCall.result.value
    IN  /\ pc = "threw" => blank
        /\ pc = "returned" =>
              /\ ~blank
              /\ result # <<>>
              /\ result[1] \in Range(LowerCase) \cup Range(UpperCase) \cup {"_", "$"}
              /\ \A i \in 1..Len(result) :
                    result[i] \in Range(LowerCase) \cup Range(UpperCase) \cup Digits
                                      \cup {"_", "$"}
              /\ result \notin reservedWords

\* an input made of a digit and a separator gets the prefix, a reserved word
\* the suffix
C30_Witness ==
    /\ pc = "returned"
    /\ \/ source = <<"2", "-", "d">> /\ lastCall.result.value = <<"_", "2", "D">>
       \/ source = <<"d", "o">> /\ lastCall.result.value = <<"d", "o", "_", "f", "n">>

====
